---- MODULE Spec2Model ----
(***************************************************************************)
(* Model of the rule-based text pipeline of data_extractor:                *)
(*   utils/upsc_text_reconstructor.py   (Structural Reconstructor)         *)
(*   utils/table_handler.py             (flatten_table_rows)               *)
(*   utils/upsc_question_block_detector.py (Question Block Detector)       *)
(*   phase2/format_classifier.py        (Format Classifier)                *)
(*   phase2/json_sanitizer.py, phase2/parser_groq.py (Response Sanitizer)  *)
(*                                                                         *)
(* A Python string is a sequence of characters; a character is a          *)
(* one-letter TLA+ string (or a named atom for a non-ASCII glyph).         *)
(***************************************************************************)
EXTENDS Integers, Sequences, FiniteSets, TLC

\* ------------------------------------------------------------------------
\* Characters
\* ------------------------------------------------------------------------
NL == "\n"
SP == " "
NBSP == "nbsp"
ZWSP == "zwsp"
BULLET == "bullet"
ENDASH == "endash"
CTRL == "ctrl"

Digits == {"0", "1", "2", "3", "4", "5", "6", "7", "8", "9"}

UpperSeq == <<"A", "B", "C", "D", "E", "F", "G", "H", "I", "J", "K", "L", "M",
              "N", "O", "P", "Q", "R", "S", "T", "U", "V", "W", "X", "Y", "Z">>

LowerSeq == <<"a", "b", "c", "d", "e", "f", "g", "h", "i", "j", "k", "l", "m",
              "n", "o", "p", "q", "r", "s", "t", "u", "v", "w", "x", "y", "z">>

UpperSet == {UpperSeq[i] : i \in 1..26}

LowerSet == {LowerSeq[i] : i \in 1..26}

\* str.isspace(): the characters str.strip() and str.split() treat as blank
IsSpace(c) == c \in {SP, NL, "\t", NBSP}

\* regex \w
IsWordChar(c) == c \in UpperSet \cup LowerSet \cup Digits \cup {"_"}

\* regex [A-Za-z0-9]
IsAlnum(c) == c \in UpperSet \cup LowerSet \cup Digits

LowerChar(c) ==
    IF c \in UpperSet
    THEN LowerSeq[CHOOSE i \in 1..26 : UpperSeq[i] = c]
    ELSE c

\* ------------------------------------------------------------------------
\* Python string operations
\* ------------------------------------------------------------------------
Min(a, b) == IF a < b THEN a ELSE b

\* str.lower()
Lower(s) == [i \in 1..Len(s) |-> LowerChar(s[i])]

\* s[from:] with 1-based from
Drop(s, n) == SubSeq(s, n + 1, Len(s))

\* s[:n]
Take(s, n) == SubSeq(s, 1, Min(n, Len(s)))

\* s.startswith(p)
StartsWith(s, p) == Len(p) <= Len(s) /\ SubSeq(s, 1, Len(p)) = p

\* s.endswith(p)
EndsWith(s, p) == Len(p) <= Len(s) /\ SubSeq(s, Len(s) - Len(p) + 1, Len(s)) = p

\* p in s
Contains(s, p) == \E i \in 1..(Len(s) - Len(p) + 1) : SubSeq(s, i, i + Len(p) - 1) = p

\* s.count(c) for a single character c
CountChar(s, c) == Cardinality({i \in 1..Len(s) : s[i] = c})

\* s.find(c): 1-based index of the first c, 0 when absent (Python: -1)
Find(s, c) ==
    IF \E i \in 1..Len(s) : s[i] = c
    THEN CHOOSE i \in 1..Len(s) : s[i] = c /\ \A j \in 1..(i - 1) : s[j] # c
    ELSE 0

\* s.rfind(c): 1-based index of the last c, 0 when absent
RFind(s, c) ==
    IF \E i \in 1..Len(s) : s[i] = c
    THEN CHOOSE i \in 1..Len(s) : s[i] = c /\ \A j \in (i + 1)..Len(s) : s[j] # c
    ELSE 0

\* s.lstrip() / s.rstrip() / s.strip()
LStripSet(s, cs) ==
    IF \A i \in 1..Len(s) : s[i] \in cs
    THEN <<>>
    ELSE Drop(s, (CHOOSE i \in 1..Len(s) : s[i] \notin cs /\ \A j \in 1..(i - 1) : s[j] \in cs) - 1)

RStripSet(s, cs) ==
    IF \A i \in 1..Len(s) : s[i] \in cs
    THEN <<>>
    ELSE Take(s, CHOOSE i \in 1..Len(s) : s[i] \notin cs /\ \A j \in (i + 1)..Len(s) : s[j] \in cs)

Blank == {SP, NL, "\t", NBSP}

Strip(s) == RStripSet(LStripSet(s, Blank), Blank)

\* s.replace(c, r) for a single character c and a string r
RECURSIVE ReplaceChar(_, _, _)
ReplaceChar(s, c, r) ==
    IF s = <<>> THEN <<>>
    ELSE (IF Head(s) = c THEN r ELSE <<Head(s)>>) \o ReplaceChar(Tail(s), c, r)

\* s.split(c): the pieces between occurrences of the character c
RECURSIVE SplitOn(_, _)
SplitOn(s, c) ==
    LET k == Find(s, c)
    IN  IF k = 0 THEN <<s>>
        ELSE <<Take(s, k - 1)>> \o SplitOn(Drop(s, k), c)

\* s.split(): the maximal runs of non-blank characters
RECURSIVE SplitWS(_)
SplitWS(s) ==
    LET t == LStripSet(s, Blank)
    IN  IF t = <<>> THEN <<>>
        ELSE LET k == IF \E i \in 1..Len(t) : IsSpace(t[i])
                      THEN (CHOOSE i \in 1..Len(t) : IsSpace(t[i]) /\ \A j \in 1..(i - 1) : ~IsSpace(t[j])) - 1
                      ELSE Len(t)
             IN  <<Take(t, k)>> \o SplitWS(Drop(t, k))

\* sep.join(parts)
RECURSIVE Join(_, _)
Join(parts, sep) ==
    IF parts = <<>> THEN <<>>
    ELSE IF Len(parts) = 1 THEN parts[1]
    ELSE parts[1] \o sep \o Join(Tail(parts), sep)

\* re.sub(r" {2,}", " ", s)
RECURSIVE CollapseSpaces(_)
CollapseSpaces(s) ==
    IF Len(s) < 2 THEN s
    ELSE IF s[1] = SP /\ s[2] = SP THEN CollapseSpaces(Tail(s))
    ELSE <<Head(s)>> \o CollapseSpaces(Tail(s))

\* number of leading characters of s that belong to cs
SpanLen(s, cs) ==
    IF \A i \in 1..Len(s) : s[i] \in cs THEN Len(s)
    ELSE (CHOOSE i \in 1..Len(s) : s[i] \notin cs /\ \A j \in 1..(i - 1) : s[j] \in cs) - 1

\* ------------------------------------------------------------------------
\* utils/table_handler.py
\* ------------------------------------------------------------------------
\* [p.strip() for p in row.split("|") if p.strip()]
RECURSIVE StripNonBlank(_)
StripNonBlank(parts) ==
    IF parts = <<>> THEN <<>>
    ELSE (IF Strip(Head(parts)) # <<>> THEN <<Strip(Head(parts))>> ELSE <<>>)
         \o StripNonBlank(Tail(parts))

TableParts(row) == StripNonBlank(SplitOn(row, "|"))

RECURSIVE flatten_table_rows(_)
flatten_table_rows(rows) ==
    IF rows = <<>> THEN <<>>
    ELSE (IF TableParts(Head(rows)) = <<>> THEN <<>>
          ELSE <<Join(TableParts(Head(rows)), <<SP, ENDASH, SP>>)>>)
         \o flatten_table_rows(Tail(rows))

\* ------------------------------------------------------------------------
\* utils/upsc_text_reconstructor.py : patterns
\* ------------------------------------------------------------------------
RomanNumerals ==
    { <<"i">>, <<"i", "i">>, <<"i", "i", "i">>, <<"i", "v">>, <<"v">>,
      <<"v", "i">>, <<"v", "i", "i">>, <<"v", "i", "i", "i">>, <<"i", "x">>, <<"x">> }

OptionLetters == {"a", "b", "c", "d", "A", "B", "C", "D"}

\* roman_pat  ^(I|II|III|IV|V|VI|VII|VIII|IX|X)[\.\:]?$  (IGNORECASE)
is_roman(line) ==
    \/ Lower(line) \in RomanNumerals
    \/ /\ Len(line) >= 2
       /\ line[Len(line)] \in {".", ":"}
       /\ Lower(Take(line, Len(line) - 1)) \in RomanNumerals

\* statement_pat  ^statement[\s\-]*([i1]+)[\.\:]*$  (IGNORECASE)
is_statement_header(line) ==
    /\ StartsWith(Lower(line), <<"s", "t", "a", "t", "e", "m", "e", "n", "t">>)
    /\ LET r1 == Drop(Lower(line), 9)
           r2 == Drop(r1, SpanLen(r1, Blank \cup {"-"}))
           n  == SpanLen(r2, {"i", "1"})
           r3 == Drop(r2, n)
       IN  n >= 1 /\ \A k \in 1..Len(r3) : r3[k] \in {".", ":"}

\* option_pat  ^[\(\[]?[a-dA-D][\)\.\]]?  (reconstructor)
is_option(line) ==
    \/ Len(line) >= 1 /\ line[1] \in OptionLetters
    \/ Len(line) >= 2 /\ line[1] \in {"(", "["} /\ line[2] \in OptionLetters

\* list_digit_pat  ^\d+\.$
is_list_digit_header(line) ==
    /\ Len(line) >= 2
    /\ line[Len(line)] = "."
    /\ \A k \in 1..(Len(line) - 1) : line[k] \in Digits

\* list_digit_item_pat  ^\d+\s*[\.\)]\s+
is_list_digit_item(line) ==
    LET n  == SpanLen(line, Digits)
        r1 == Drop(line, n)
        r2 == Drop(r1, SpanLen(r1, Blank))
    IN  /\ n >= 1
        /\ Len(r2) >= 2
        /\ r2[1] \in {".", ")"}
        /\ IsSpace(r2[2])

\* table_sep_pat  [|]{1,}
is_table_row(line) == \E k \in 1..Len(line) : line[k] = "|"

\* text.split("\n") then [ln.strip() for ln in ... if ln.strip()]
NonBlankLines(text) == StripNonBlank(SplitOn(text, NL))

\* UPSCTextReconstructor.preprocess
RemoveChars(s, cs) == SelectSeq(s, LAMBDA c : c \notin cs)

preprocess(text) ==
    NonBlankLines(RemoveChars(ReplaceChar(text, NBSP, <<SP>>), {ZWSP, BULLET}))

\* ------------------------------------------------------------------------
\* Inputs: raw OCR lines, and the texts made of up to MaxLines of them
\* ------------------------------------------------------------------------
MaxLines == 3

L_One == <<"1", ".">>

L_Roman == <<"I", ".">>

L_Row == <<SP, "T", "e", "a", SP, "|", SP, "4", SP>>

L_Sent == <<BULLET, "T", "e", "a", ".">>

L_Wrap == <<"r", "i", "c", "e", SP, "a", "n", "d">>

L_OptA == <<"a", ")", SP, "P", "a", "r", "i", "s">>

L_Which == <<"W", "h", "i", "c", "h", SP, "o", "f", SP, "t", "h", "e", SP, "f", "o", "l", "l", "o", "w", "i", "n", "g", SP, "i", "s", SP, "t", "r", "u", "e", "?">>

L_Blank == <<SP, SP>>

L_Stmt == <<"S", "t", "a", "t", "e", "m", "e", "n", "t", SP, "I">>

L_Item == <<"2", ".", SP, "R", "i", "c", "e">>

L_What == <<"W", "h", "a", "t", SP, "i", "s", SP, "t", "h", "e", SP, "c", "a", "p", "i", "t", "a", "l">>

L_OfFrance == <<"o", "f", SP, "F", "r", "a", "n", "c", "e", "?">>

L_OptB == <<"b", ")", SP, "L", "y", "o", "n">>

LinePool == {L_One, L_Roman, L_Row, L_Sent, L_Wrap, L_OptA, L_Which, L_Blank, L_Stmt, L_Item}

L_Delhi == <<"D", "e", "l", "h", "i", SP, "i", "s", SP, "t", "h", "e", SP, "c", "a", "p", "i", "t", "a", "l">>

L_OptE == <<"e", ")", SP, "P", "u", "n", "e">>

\* the end-to-end example of the pipeline: a lone "1." header, a wrapped
\* stem and two option lines
ExampleLines == <<L_One, L_What, L_OfFrance, L_OptA, L_OptB>>

\* a stem wrapped before a word that begins with one of the letters a to d,
\* and a fifth option "e)" after a wrapped line
WrappedLines == {<<L_What, L_Delhi>>, <<L_Wrap, L_OptE>>}

LineSeqs == UNION {[1..n -> LinePool] : n \in 0..MaxLines}

Texts == {Join(ls, <<NL>>) : ls \in LineSeqs \cup {ExampleLines} \cup WrappedLines}

\* ------------------------------------------------------------------------
\* State
\* ------------------------------------------------------------------------
VARIABLES
    pc,          \* position in the run
    text,        \* the text handed to reconstruct / detect
    lines,       \* reconstruct: preprocessed lines
    i,           \* reconstruct: index of the line the loop is at (1-based)
    structured,  \* reconstruct: emitted units
    buffer,      \* reconstruct: paragraph buffer
    table_rows,  \* reconstruct: pending table rows
    out,         \* reconstruct: returned text
    pass,        \* 1: reconstruct of the input, 2: reconstruct of its own output
    out1,        \* the text returned by pass 1
    dsrc,        \* detect: "raw" when called on the input text, "reconstructed" when on reconstruct's output
    dtext,       \* detect: the text it was called with
    dlines,      \* detect: lines
    idx,         \* detect: index of the line the loop is at (1-based)
    curr,        \* detect: current block
    blocks,      \* detect: committed blocks
    ctext,       \* classify: the question text it is called with
    cfmt,        \* classify: the returned tag ("none" before the call)
    json_str,    \* sanitize_and_load: the text it is called with
    envelope,    \* how that text was put together: [prefix, body, suffix]
    spc,         \* sanitize_and_load: control position
    parse_attempts,   \* calls of _try_parse made by this call
    repair_requests,  \* calls of request_json_repair made by this call
    repaired,    \* the text the repair service returned
    result,      \* the value sanitize_and_load returned
    log_files,   \* logs/groq_raw: file name -> content, written by call_groq
    options_dict,  \* normalize: the value it is called with
    npc,         \* normalize: control position
    nidx,        \* normalize: index of the item the loop is at (1-based)
    cleaned,     \* normalize: label -> cleaned value, in insertion order
    final,       \* normalize: the returned mapping
    ocr_files,   \* build_dataset: the tags of the OCR files it is called with
    bpc,         \* build_dataset: control position
    file_idx,    \* build_dataset: position in ocr_files of the file at hand (1-based)
    file_blocks, \* build_dataset: number of blocks the segmenter returned for that file
    block_idx,   \* build_dataset: idx, the 1-based index of the block at hand
    final_dataset,  \* build_dataset: the output collection
    output_file, \* the content json.dump wrote, NoResult before
    segmented,   \* history: per file handed to the segmenter, the number of blocks it returned
    history,     \* history: per block handed to parse_block, what the services answered
    block_table, \* for every answer of the services, what a block becomes (worked out once)
    wpc,         \* per worker: control position in the per-block steps (lines 186-232)
    wans,        \* per worker: what the services answer for its block
    wrec,        \* per worker: the record it made of its block
    btext,       \* beautifier: the text it is called with
    bfun,        \* beautifier: the function that was called ("none" before the call)
    bout,        \* beautifier: the returned text
    json_files,  \* merge_json_files: the JSON files of the input directory
    mpc,         \* merge_json_files: control position
    jf_idx,      \* merge_json_files: position in json_files of the file at hand (1-based)
    q_idx,       \* merge_json_files: position in data of the question at hand (1-based)
    file_counts, \* merge_json_files: the counters of the file at hand (file_questions, ...)
    csvfile,     \* merge_json_files: the rows written to the CSV file
    rejected_questions,  \* merge_json_files: the rejected questions list
    stats,       \* merge_json_files: the statistics it returns
    rejected_log \* the content json.dump wrote to the rejected questions log, NoResult before

reconVars == <<lines, i, structured, buffer, table_rows, out, pass, out1>>

detectVars == <<dsrc, dtext, dlines, idx, curr, blocks>>

textVars == <<pc, text, reconVars, detectVars>>

classVars == <<ctext, cfmt>>

sanVars == <<json_str, envelope, spc, parse_attempts, repair_requests, repaired, result, log_files>>

normVars == <<options_dict, npc, nidx, cleaned, final>>

buildVars == <<ocr_files, bpc, file_idx, file_blocks, block_idx, final_dataset, output_file, segmented, history, block_table>>

\* the state of the second phase besides the classifier and the sanitizer
parVars == <<wpc, wans, wrec>>

beautVars == <<btext, bfun, bout>>

mergeVars == <<json_files, mpc, jf_idx, q_idx, file_counts, csvfile, rejected_questions, stats, rejected_log>>

phaseVars == <<normVars, buildVars, parVars, beautVars, mergeVars>>

vars == <<textVars, classVars, sanVars, phaseVars>>

\* what the option normalizer leaves alone
notNorm == <<textVars, classVars, sanVars, buildVars, parVars, beautVars, mergeVars>>

\* what build_dataset leaves alone (it writes the repair log through the sanitizer)
notBuild == <<textVars, classVars, json_str, envelope, spc, parse_attempts, repair_requests, repaired, result, normVars, parVars, beautVars, mergeVars>>

\* what the per-block steps of a worker leave alone (they write the repair log)
notParallel == <<textVars, classVars, json_str, envelope, spc, parse_attempts, repair_requests, repaired, result, normVars, buildVars, beautVars, mergeVars>>

\* what a beautifier leaves alone
notBeautify == <<textVars, classVars, sanVars, normVars, buildVars, parVars, mergeVars>>

\* what merge_json_files leaves alone
notMerge == <<textVars, classVars, sanVars, normVars, buildVars, parVars, beautVars>>

\* what the reconstructor and the detector leave alone
notText == <<classVars, sanVars, phaseVars>>

\* ------------------------------------------------------------------------
\* utils/upsc_text_reconstructor.py : reconstruct
\* ------------------------------------------------------------------------
\* lines 78-80: a non-table line flushes the pending table rows
FlushTable(st) ==
    IF st.table_rows # <<>>
    THEN [st EXCEPT !.structured = @ \o flatten_table_rows(st.table_rows),
                    !.table_rows = <<>>]
    ELSE st

\* lines 86-88 / 96-98: flush the paragraph buffer
FlushBuffer(st) ==
    IF st.buffer # <<>>
    THEN [st EXCEPT !.structured = Append(@, Strip(st.buffer)), !.buffer = <<>>]
    ELSE st

Emit(st, unit) == [st EXCEPT !.structured = Append(@, unit)]

\* lines 106-118: lone roman header
RomanUnit(ls, k) ==
    LET numeral == RStripSet(ls[k], {".", ":"}) \o <<".">>
    IN  IF k + 1 <= Len(ls) /\ ~is_roman(ls[k + 1])
        THEN numeral \o <<SP>> \o ls[k + 1]
        ELSE numeral

\* lines 124-132: lone numeric header
DigitUnit(ls, k) ==
    IF k + 1 <= Len(ls)
    THEN ls[k] \o <<SP>> \o ls[k + 1]
    ELSE ls[k]

\* lines 144-152: plain text merge rule
MergePlain(st, line) ==
    IF st.buffer = <<>>
    THEN [st EXCEPT !.buffer = line]
    ELSE IF st.buffer[Len(st.buffer)] \in {".", "?", "!", ":"}
    THEN [st EXCEPT !.structured = Append(@, st.buffer), !.buffer = line]
    ELSE [st EXCEPT !.buffer = @ \o <<SP>> \o line]

\* lines 68-152: one iteration of the loop, on line ls[k]
ReconStep(st, ls, k) ==
    LET line == ls[k]
    IN  IF is_table_row(line)
        THEN [st EXCEPT !.table_rows = Append(@, line)]
        ELSE LET s1 == FlushTable(st)
             IN  IF is_option(line) THEN Emit(FlushBuffer(s1), line)
                 ELSE IF is_statement_header(line)
                 THEN Emit(FlushBuffer(s1), RStripSet(line, {".", ":"}) \o <<":">>)
                 ELSE IF is_roman(line) THEN Emit(s1, RomanUnit(ls, k))
                 ELSE IF is_list_digit_header(line) THEN Emit(s1, DigitUnit(ls, k))
                 ELSE IF is_list_digit_item(line) THEN Emit(s1, line)
                 ELSE MergePlain(s1, line)

\* an end of stream that flushes the table rows before the buffer
ReconEnd_TableFirst(st) ==
    LET s1 == IF st.table_rows # <<>>
              THEN [st EXCEPT !.structured = @ \o flatten_table_rows(st.table_rows)]
              ELSE st
        s2 == IF s1.buffer # <<>>
              THEN [s1 EXCEPT !.structured = Append(@, Strip(s1.buffer))]
              ELSE s1
        cleaned_lines == [k \in 1..Len(s2.structured) |-> CollapseSpaces(s2.structured[k])]
    IN  Strip(Join(cleaned_lines, <<NL>>))

\* lines 154-166: end of stream
ReconEnd(st) ==
    LET s1 == IF st.buffer # <<>>
              THEN [st EXCEPT !.structured = Append(@, Strip(st.buffer))]
              ELSE st
        s2 == IF s1.table_rows # <<>>
              THEN [s1 EXCEPT !.structured = @ \o flatten_table_rows(s1.table_rows)]
              ELSE s1
        cleaned_lines == [k \in 1..Len(s2.structured) |-> CollapseSpaces(s2.structured[k])]
    IN  Strip(Join(cleaned_lines, <<NL>>))

ReconState == [structured |-> structured, buffer |-> buffer, table_rows |-> table_rows]

\* line 62-66
Preprocess ==
    /\ pc = "start"
    /\ lines' = preprocess(text)
    /\ i' = 1
    /\ structured' = <<>>
    /\ buffer' = <<>>
    /\ table_rows' = <<>>
    /\ pc' = "scan"
    /\ UNCHANGED <<text, out, pass, out1, detectVars, notText>>

ReconLine ==
    /\ pc = "scan"
    /\ i <= Len(lines)
    /\ LET st == ReconStep(ReconState, lines, i)
       IN  /\ structured' = st.structured
           /\ buffer' = st.buffer
           /\ table_rows' = st.table_rows
    /\ i' = i + 1
    /\ UNCHANGED <<pc, text, lines, out, pass, out1, detectVars, notText>>

ReconFinish ==
    /\ pc = "scan"
    /\ i > Len(lines)
    /\ out' = ReconEnd(ReconState)
    /\ pc' = "reconstructed"
    /\ UNCHANGED <<text, lines, i, structured, buffer, table_rows, pass, out1, detectVars, notText>>

\* reconstruct_text(reconstruct_text(t)): the returned text is the next input
SecondPass ==
    /\ pc = "reconstructed"
    /\ pass = 1
    /\ text' = out
    /\ out1' = out
    /\ pass' = 2
    /\ pc' = "start"
    /\ UNCHANGED <<lines, i, structured, buffer, table_rows, out, detectVars, notText>>

\* ------------------------------------------------------------------------
\* utils/upsc_question_block_detector.py : patterns
\* ------------------------------------------------------------------------
\* option_pat  ^[\(\[]?\s*([a-dA-D])[\)\.\]]?\s  on line.strip()
detector_is_option(line) ==
    LET l0 == Strip(line)
        r1 == IF l0 # <<>> /\ l0[1] \in {"(", "["} THEN Tail(l0) ELSE l0
        r2 == Drop(r1, SpanLen(r1, Blank))
    IN  /\ Len(r2) >= 2
        /\ r2[1] \in OptionLetters
        /\ \/ IsSpace(r2[2])
           \/ Len(r2) >= 3 /\ r2[2] \in {")", ".", "]"} /\ IsSpace(r2[3])

\* roman_pat  ^(I|II|III|IV|V|VI|VII|VIII|IX|X)[\.\:]  (IGNORECASE)
detector_roman(line) ==
    \E r \in RomanNumerals :
        /\ StartsWith(Lower(line), r)
        /\ Len(line) > Len(r)
        /\ line[Len(r) + 1] \in {".", ":"}

\* digit_list_pat  ^\d+\s*[\.\)]\s+
digit_list(line) ==
    LET n  == SpanLen(line, Digits)
        r1 == Drop(line, n)
        r2 == Drop(r1, SpanLen(r1, Blank))
    IN  /\ n >= 1
        /\ Len(r2) >= 2
        /\ r2[1] \in {".", ")"}
        /\ IsSpace(r2[2])

\* table_pat  [A-Za-z0-9]+\s*\|\s*[A-Za-z0-9]+  (search)
table_match(line) ==
    \E k \in 1..Len(line) :
        /\ line[k] = "|"
        /\ \E j \in 1..(k - 1) :
              IsAlnum(line[j]) /\ \A m \in (j + 1)..(k - 1) : IsSpace(line[m])
        /\ \E j \in (k + 1)..Len(line) :
              IsAlnum(line[j]) /\ \A m \in (k + 1)..(j - 1) : IsSpace(line[m])

likely_q_start ==
    { <<"w", "i", "t", "h", SP, "r", "e", "f", "e", "r", "e", "n", "c", "e">>,
      <<"c", "o", "n", "s", "i", "d", "e", "r", SP, "t", "h", "e", SP, "f", "o", "l", "l", "o", "w", "i", "n", "g">>,
      <<"w", "h", "i", "c", "h", SP, "o", "f", SP, "t", "h", "e", SP, "f", "o", "l", "l", "o", "w", "i", "n", "g">>,
      <<"w", "h", "i", "c", "h", SP, "o", "n", "e", SP, "o", "f", SP, "t", "h", "e", SP, "f", "o", "l", "l", "o", "w", "i", "n", "g">>,
      <<"a", "s", "s", "e", "r", "t", "i", "o", "n">>,
      <<"r", "e", "a", "d", SP, "t", "h", "e", SP, "f", "o", "l", "l", "o", "w", "i", "n", "g">>,
      <<"r", "e", "g", "a", "r", "d", "i", "n", "g">>,
      <<"i", "n", SP, "t", "h", "e", SP, "c", "o", "n", "t", "e", "x", "t">>,
      <<"w", "h", "o", SP, "a", "m", "o", "n", "g", SP, "t", "h", "e", SP, "f", "o", "l", "l", "o", "w", "i", "n", "g">>,
      <<"i", "d", "e", "n", "t", "i", "f", "y", SP, "t", "h", "e", SP, "c", "o", "r", "r", "e", "c", "t">>,
      <<"i", "d", "e", "n", "t", "i", "f", "y", SP, "w", "h", "i", "c", "h">> }

WhWords ==
    { <<"w", "h", "i", "c", "h">>,
      <<"w", "h", "a", "t">>,
      <<"w", "h", "e", "n">>,
      <<"w", "h", "e", "r", "e">>,
      <<"w", "h", "o">>,
      <<"i", "d", "e", "n", "t", "i", "f", "y">> }

\* is_probable_question_start
is_probable_question_start(line) ==
    LET low == Strip(Lower(line))
        nwords == Len(SplitWS(low))
    IN  IF Len(low) < 15 THEN FALSE
        ELSE \/ /\ \E w \in WhWords :
                      /\ StartsWith(low, w)
                      /\ Len(low) = Len(w) \/ ~IsWordChar(low[Len(w) + 1])
                /\ nwords > 3
             \/ \E p \in likely_q_start : StartsWith(Lower(line), p)
             \/ StartsWith(low, <<"h", "o", "w", SP, "m", "a", "n", "y">>) /\ nwords > 3
             \/ low[Len(low)] = "?" /\ nwords > 4

\* str.islower() of one character
IsLowerChar(c) == c \in LowerSet

\* lines 93-132: the line continues the current block whatever it says
IsContinuation(cur, line) ==
    \/ table_match(line)
    \/ digit_list(line)
    \/ detector_roman(line)
    \/ detector_is_option(line)
    \/ cur # <<>> /\ IsLowerChar(line[1])
    \/ cur # <<>> /\ Len(SplitWS(line)) <= 3

\* word count of the current block: len(" ".join(curr).split())
MinBlockWords == 5

BlockWords(cur) == Len(SplitWS(Join(cur, <<SP>>)))

\* "\n".join(curr).strip()
BlockText(cur) == Strip(Join(cur, <<NL>>))

\* a detector without the minimum-size guard: every question start that is
\* reached commits the current block
DetectStep_NoGuard(st, line) ==
    IF IsContinuation(st.curr, line)
    THEN [st EXCEPT !.curr = Append(@, line)]
    ELSE IF is_probable_question_start(line)
    THEN IF st.curr # <<>>
         THEN [curr |-> <<line>>, blocks |-> Append(st.blocks, BlockText(st.curr))]
         ELSE [st EXCEPT !.curr = <<line>>]
    ELSE [st EXCEPT !.curr = Append(@, line)]

\* a detector whose short-fragment continuation keeps the line out of the
\* block
DetectStep_DropFragment(st, line) ==
    IF st.curr # <<>> /\ Len(SplitWS(line)) <= 3 /\ ~table_match(line)
    THEN st
    ELSE IF IsContinuation(st.curr, line)
    THEN [st EXCEPT !.curr = Append(@, line)]
    ELSE IF is_probable_question_start(line)
    THEN IF st.curr # <<>> /\ BlockWords(st.curr) < MinBlockWords
         THEN [st EXCEPT !.curr = Append(@, line)]
         ELSE IF st.curr # <<>>
         THEN [curr |-> <<line>>, blocks |-> Append(st.blocks, BlockText(st.curr))]
         ELSE [st EXCEPT !.curr = <<line>>]
    ELSE [st EXCEPT !.curr = Append(@, line)]

\* lines 88-155: one iteration of the loop; st = [curr, blocks]
DetectStep(st, line) ==
    IF IsContinuation(st.curr, line)
    THEN [st EXCEPT !.curr = Append(@, line)]
    ELSE IF is_probable_question_start(line)
    THEN IF st.curr # <<>> /\ BlockWords(st.curr) < MinBlockWords
         THEN [st EXCEPT !.curr = Append(@, line)]
         ELSE IF st.curr # <<>>
         THEN [curr |-> <<line>>, blocks |-> Append(st.blocks, BlockText(st.curr))]
         ELSE [st EXCEPT !.curr = <<line>>]
    ELSE [st EXCEPT !.curr = Append(@, line)]

\* a detector that forgets the block still open at end of stream
DetectEnd_NoFlush(st) == st.blocks

\* lines 157-161: flush the last block
DetectEnd(st) ==
    IF st.curr # <<>> THEN Append(st.blocks, BlockText(st.curr)) ELSE st.blocks

\* detect(text), line 82, called on the column text (split_into_questions)
DetectRaw ==
    /\ pc = "start"
    /\ pass = 1
    /\ dsrc' = "raw"
    /\ dtext' = text
    /\ dlines' = NonBlankLines(text)
    /\ idx' = 1
    /\ curr' = <<>>
    /\ blocks' = <<>>
    /\ pc' = "detect"
    /\ UNCHANGED <<text, reconVars, notText>>

\* detect(reconstruct_text(text)): the pipeline order
DetectReconstructed ==
    /\ pc = "reconstructed"
    /\ pass = 1
    /\ dsrc' = "reconstructed"
    /\ dtext' = out
    /\ dlines' = NonBlankLines(out)
    /\ idx' = 1
    /\ curr' = <<>>
    /\ blocks' = <<>>
    /\ pc' = "detect"
    /\ UNCHANGED <<text, reconVars, notText>>

DetectLine ==
    /\ pc = "detect"
    /\ idx <= Len(dlines)
    /\ LET st == DetectStep([curr |-> curr, blocks |-> blocks], dlines[idx])
       IN  curr' = st.curr /\ blocks' = st.blocks
    /\ idx' = idx + 1
    /\ UNCHANGED <<pc, text, reconVars, dsrc, dtext, dlines, notText>>

DetectFinish ==
    /\ pc = "detect"
    /\ idx > Len(dlines)
    /\ blocks' = DetectEnd([curr |-> curr, blocks |-> blocks])
    /\ pc' = "detected"
    /\ UNCHANGED <<text, reconVars, dsrc, dtext, dlines, idx, curr, notText>>

\* ------------------------------------------------------------------------
\* Specification of the text pipeline
\* ------------------------------------------------------------------------
\* the reconstructor and the detector before any call
TextFresh ==
    /\ pc = "start"
    /\ lines = <<>>
    /\ i = 1
    /\ structured = <<>>
    /\ buffer = <<>>
    /\ table_rows = <<>>
    /\ out = <<>>
    /\ pass = 1
    /\ out1 = <<>>
    /\ dsrc = "none"
    /\ dtext = <<>>
    /\ dlines = <<>>
    /\ idx = 1
    /\ curr = <<>>
    /\ blocks = <<>>

\* the classifier before any call
ClassFresh == cfmt = "none"

\* a Python value that is no JSON value: nothing returned yet
NoResult == [none |-> TRUE]

\* the sanitizer before any call
SanFresh ==
    /\ spc = "call"
    /\ parse_attempts = 0
    /\ repair_requests = 0
    /\ repaired = <<>>
    /\ result = NoResult
    /\ log_files = <<>>

NoEnvelope == [prefix |-> <<>>, body |-> <<>>, suffix |-> <<>>]

\* the sanitizer is not part of this specification
SanIdle == SanFresh /\ json_str = <<>> /\ envelope = NoEnvelope

\* the classifier is not part of this specification
ClassIdle == ClassFresh /\ ctext = <<>>

\* the option normalizer before any call
NormFresh ==
    /\ npc = "call"
    /\ nidx = 1
    /\ cleaned = <<>>
    /\ final = <<>>

\* the option normalizer is not part of this specification
NormIdle == NormFresh /\ options_dict = [dict |-> <<>>]

\* build_dataset before its loop
BuildFresh ==
    /\ bpc = "next_file"
    /\ file_idx = 1
    /\ file_blocks = 0
    /\ block_idx = 1
    /\ final_dataset = <<>>
    /\ output_file = NoResult
    /\ segmented = <<>>
    /\ history = <<>>

\* build_dataset is not part of this specification
BuildIdle == BuildFresh /\ ocr_files = <<>> /\ block_table = <<>>

\* no worker is at work
ParIdle == wpc = <<>> /\ wans = <<>> /\ wrec = <<>>

\* no beautifier has been called
BeautFresh == bfun = "none" /\ bout = <<>>

BeautIdle == BeautFresh /\ btext = <<>>

\* the statistics of a call before its loop (lines 283-291)
NoStats ==
    [total_questions |-> 0, skipped |-> 0, rejected_null_answer |-> 0, rejected_validation |-> 0,
     format_warnings |-> 0, errors |-> 0, files_processed |-> 0]

\* the counters of a file before its loop (lines 382-386)
NoFileCounts ==
    [file_questions |-> 0, file_skipped |-> 0, file_rejected_null |-> 0,
     file_rejected_validation |-> 0, file_format_warnings |-> 0]

\* merge_json_files before any call
MergeFresh ==
    /\ mpc = "call"
    /\ jf_idx = 1
    /\ q_idx = 1
    /\ file_counts = NoFileCounts
    /\ csvfile = <<>>
    /\ rejected_questions = <<>>
    /\ stats = NoStats
    /\ rejected_log = NoResult

\* merge_json_files is not part of this specification
MergeIdle == MergeFresh /\ json_files = <<>>

\* the rest of the second phase is not part of this specification
PhaseIdle == NormIdle /\ BuildIdle /\ ParIdle /\ BeautIdle /\ MergeIdle

Init ==
    /\ TextFresh
    /\ text \in Texts
    /\ ClassIdle
    /\ SanIdle
    /\ PhaseIdle

Next ==
    \/ Preprocess
    \/ ReconLine
    \/ ReconFinish
    \/ SecondPass
    \/ DetectRaw
    \/ DetectReconstructed
    \/ DetectLine
    \/ DetectFinish

Spec == Init /\ [][Next]_vars

\* ------------------------------------------------------------------------
\* Claims about the reconstructor and the block detector (checked under Spec)
\* ------------------------------------------------------------------------
ExampleText == Join(ExampleLines, <<NL>>)

ExampleBlock ==
    <<"1", ".", SP, "W", "h", "a", "t", SP, "i", "s", SP, "t", "h", "e", SP, "c", "a", "p", "i", "t", "a", "l", SP, "o", "f", SP, "F", "r", "a", "n", "c", "e", "?", NL, "a", ")", SP, "P", "a", "r", "i", "s", NL, "b", ")", SP, "L", "y", "o", "n">>

\* C1: the Structural Reconstructor is idempotent: reconstructing the text
\* returned by reconstruct returns that same text.
C1_Idempotent == (pc = "reconstructed" /\ pass = 2) => out = out1

\* C2: on the end-to-end example (lone "1.", wrapped stem, two options)
\* reconstruct followed by detect yields exactly one block, the merged
\* question with every stem line once.
C2_EndToEndOneBlock ==
    (pc = "detected" /\ dsrc = "reconstructed" /\ text = ExampleText)
        => blocks = <<ExampleBlock>>

\* C3: detect returns no block for a text without non-blank line, and
\* exactly one block holding all the lines in order, joined by newlines,
\* for a text none of whose lines is a probable question start.
C3_DetectDegenerate ==
    pc = "detected" =>
        LET ls == NonBlankLines(dtext)
        IN  /\ ls = <<>> => blocks = <<>>
            /\ (ls # <<>> /\ \A k \in 1..Len(ls) : ~is_probable_question_start(ls[k]))
                  => blocks = <<Join(ls, <<NL>>)>>

C3_Witness ==
    /\ pc = "detected"
    /\ Len(dlines) >= 2
    /\ \A k \in 1..Len(dlines) : ~is_probable_question_start(dlines[k])
    /\ Len(blocks) = 1

\* the lines of ls at the positions of S, in the order of ls
RECURSIVE PickLines(_, _, _)
PickLines(ls, S, k) ==
    IF k > Len(ls) THEN <<>>
    ELSE (IF k \in S THEN <<ls[k]>> ELSE <<>>) \o PickLines(ls, S, k + 1)

\* C18: when the input ends with an open paragraph buffer and pending table
\* rows, the returned text ends with the buffer followed by the flattened
\* rows; the pending rows are the last lines of the input, in their order,
\* and the buffer is made of earlier lines, in their order.
C18_BufferBeforeTable ==
    (pc = "reconstructed" /\ buffer # <<>> /\ table_rows # <<>>) =>
        LET n == Len(table_rows)
            flat == flatten_table_rows(table_rows)
            outLines == SplitOn(out, NL)
            m == Len(outLines)
        IN  /\ n <= Len(lines)
            /\ table_rows = SubSeq(lines, Len(lines) - n + 1, Len(lines))
            /\ \E S \in SUBSET (1..(Len(lines) - n)) : buffer = Join(PickLines(lines, S, 1), <<SP>>)
            /\ m >= Len(flat) + 1
            /\ SubSeq(outLines, m - Len(flat) + 1, m) = [k \in 1..Len(flat) |-> CollapseSpaces(flat[k])]
            /\ outLines[m - Len(flat)] = CollapseSpaces(Strip(buffer))

C18_Witness ==
    /\ pc = "reconstructed"
    /\ buffer # <<>>
    /\ Len(table_rows) >= 2
    /\ Len(SplitOn(out, NL)) = 3

\* a line of a block is an option line
BlockLines(b) == SplitOn(b, NL)

\* C19: every block detect returns is non-empty after trimming, and within
\* a block no option line comes before a line that is no option line.
C19_BlockInvariant ==
    pc = "detected" =>
        \A b \in 1..Len(blocks) :
            /\ Strip(blocks[b]) # <<>>
            /\ \A x, y \in 1..Len(BlockLines(blocks[b])) :
                  (x < y /\ detector_is_option(BlockLines(blocks[b])[x]))
                      => detector_is_option(BlockLines(blocks[b])[y])

\* ------------------------------------------------------------------------
\* phase2/format_classifier.py
\* ------------------------------------------------------------------------
UpperRomans ==
    { <<"I">>, <<"I", "I">>, <<"I", "I", "I">>, <<"I", "V">>, <<"V">>, <<"V", "I">>, <<"V", "I", "I">>, <<"V", "I", "I", "I">>, <<"I", "X">>, <<"X">> }

\* a regex \b just before index p, where text[p] is a word character
BoundaryBefore(t, p) == p = 1 \/ ~IsWordChar(t[p - 1])

\* len(re.findall(r"\b\d+\.", text))
NumericItems(t) ==
    Cardinality({q \in 2..Len(t) :
        /\ t[q] = "."
        /\ \E p \in 1..(q - 1) :
              /\ \A k \in p..(q - 1) : t[k] \in Digits
              /\ BoundaryBefore(t, p)})

\* len(re.findall(r"\b(I|II|III|IV|V|VI|VII|VIII|IX|X)\.", text))
RomanItems(t) ==
    Cardinality({q \in 2..Len(t) :
        /\ t[q] = "."
        /\ \E r \in UpperRomans :
              /\ Len(r) < q
              /\ SubSeq(t, q - Len(r), q - 1) = r
              /\ BoundaryBefore(t, q - Len(r))})

\* len(re.findall(r"^\(?\d+\)|^\(?[a-d]\)", text, flags=re.MULTILINE))
BulletAt(t, p) ==
    LET r0 == Drop(t, p - 1)
        r1 == IF r0 # <<>> /\ r0[1] = "(" THEN Tail(r0) ELSE r0
        n  == SpanLen(r1, Digits)
    IN  \/ n >= 1 /\ Len(r1) > n /\ r1[n + 1] = ")"
        \/ Len(r1) >= 2 /\ r1[1] \in {"a", "b", "c", "d"} /\ r1[2] = ")"

BulletLines(t) ==
    Cardinality({p \in 1..Len(t) : (p = 1 \/ t[p - 1] = NL) /\ BulletAt(t, p)})

\* [c for c in ln.split(" ") if c.strip()]
Chunks(ln) == StripNonBlank(SplitOn(ln, SP))

\* lines 43-47: lines with three or more chunks
MultiColLines(ls) == Cardinality({k \in 1..Len(ls) : Len(Chunks(ls[k])) >= 3})

TableHeaderCues ==
    { <<"o", "r", "g", "a", "n", "i", "z", "a", "t", "i", "o", "n">>,
      <<"f", "u", "n", "c", "t", "i", "o", "n", "s">>,
      <<"w", "o", "r", "k", "s", SP, "u", "n", "d", "e", "r">>,
      <<"c", "o", "l", "u", "m", "n", SP, "i">>,
      <<"c", "o", "l", "u", "m", "n", SP, "i", "i">> }

\* lines 52-56: a header cue and three or more short lines
HeaderCueTable(qt, ls) ==
    /\ \E h \in TableHeaderCues : Contains(qt, h)
    /\ Cardinality({k \in 1..Len(ls) : Len(ls[k]) < 35}) >= 3

\* lines 36-56
TableRule(t) ==
    \/ Contains(t, <<"|">>)
    \/ MultiColLines(NonBlankLines(t)) >= 2
    \/ HeaderCueTable(Strip(Lower(t)), NonBlankLines(t))

\* lines 63-81
StatementRule(t) ==
    LET qt == Strip(Lower(t))
    IN  \/ NumericItems(t) >= 2
        \/ RomanItems(t) >= 2
        \/ Contains(qt, <<"s", "t", "a", "t", "e", "m", "e", "n", "t", SP, "i">>)
        \/ Contains(qt, <<"s", "t", "a", "t", "e", "m", "e", "n", "t", SP, "i", "i">>)
        \/ Contains(qt, <<"c", "o", "n", "s", "i", "d", "e", "r", SP, "t", "h", "e", SP, "f", "o", "l", "l", "o", "w", "i", "n", "g", SP, "s", "t", "a", "t", "e", "m", "e", "n", "t", "s">>)
        \/ BulletLines(t) >= 2

\* line 86
MatchRule(t) == Contains(Strip(Lower(t)), <<"m", "a", "t", "c", "h", SP, "t", "h", "e", SP, "f", "o", "l", "l", "o", "w", "i", "n", "g">>)

\* line 92
AssertionRule(t) ==
    /\ Contains(Strip(Lower(t)), <<"a", "s", "s", "e", "r", "t", "i", "o", "n">>)
    /\ Contains(Strip(Lower(t)), <<"r", "e", "a", "s", "o", "n">>)

\* lines 98-102
ParagraphRule(t) ==
    \/ Contains(Strip(Lower(t)), <<"r", "e", "a", "d", SP, "t", "h", "e", SP, "f", "o", "l", "l", "o", "w", "i", "n", "g">>)
    \/ Contains(Strip(Lower(t)), <<"p", "a", "r", "a", "g", "r", "a", "p", "h">>)
    \/ Contains(Strip(Lower(t)), <<"p", "a", "s", "s", "a", "g", "e">>)
    \/ CountChar(t, ".") >= 5

\* a classifier whose default branch returns a tag outside the closed set
classify_DefaultUnknown(t) ==
    IF t = <<>> THEN "unknown"
    ELSE IF TableRule(t) THEN "table"
    ELSE IF StatementRule(t) THEN "statement"
    ELSE IF MatchRule(t) THEN "match"
    ELSE IF AssertionRule(t) THEN "assertion"
    ELSE IF ParagraphRule(t) THEN "paragraph"
    ELSE "unknown"

\* a classifier that counts bullets before it looks for the column delimiter
classify_StatementFirst(t) ==
    IF t = <<>> THEN "single"
    ELSE IF StatementRule(t) THEN "statement"
    ELSE IF TableRule(t) THEN "table"
    ELSE IF MatchRule(t) THEN "match"
    ELSE IF AssertionRule(t) THEN "assertion"
    ELSE IF ParagraphRule(t) THEN "paragraph"
    ELSE "single"

\* a classifier that tests the match rule before the statement rule
classify_MatchFirst(t) ==
    IF t = <<>> THEN "single"
    ELSE IF TableRule(t) THEN "table"
    ELSE IF MatchRule(t) THEN "match"
    ELSE IF StatementRule(t) THEN "statement"
    ELSE IF AssertionRule(t) THEN "assertion"
    ELSE IF ParagraphRule(t) THEN "paragraph"
    ELSE "single"

\* FormatClassifier.classify
classify(t) ==
    IF t = <<>> THEN "single"
    ELSE IF TableRule(t) THEN "table"
    ELSE IF StatementRule(t) THEN "statement"
    ELSE IF MatchRule(t) THEN "match"
    ELSE IF AssertionRule(t) THEN "assertion"
    ELSE IF ParagraphRule(t) THEN "paragraph"
    ELSE "single"

Classify ==
    /\ cfmt = "none"
    /\ cfmt' = classify(ctext)
    /\ UNCHANGED <<ctext, textVars, sanVars, phaseVars>>

\* ------------------------------------------------------------------------
\* Inputs of the classifier: up to MaxFrags fragments on one line or on
\* lines of their own, and some whole question texts
\* ------------------------------------------------------------------------
MaxFrags == 3

F_Pipe == <<"|">>

F_One == <<"1", ".">>

F_Two == <<"2", ".">>

F_RomI == <<"I", ".">>

F_RomII == <<"I", "I", ".">>

F_Match == <<"m", "a", "t", "c", "h", SP, "t", "h", "e", SP, "f", "o", "l", "l", "o", "w", "i", "n", "g">>

F_Assert == <<"A", "s", "s", "e", "r", "t", "i", "o", "n">>

F_Reason == <<"r", "e", "a", "s", "o", "n">>

F_Passage == <<"p", "a", "s", "s", "a", "g", "e">>

F_Cols == <<"x", SP, "y", SP, "z">>

F_Matched == <<"c", "o", "r", "r", "e", "c", "t", "l", "y", SP, "m", "a", "t", "c", "h", "e", "d">>

F_OptA == <<"(", "a", ")">>

X_Sequence == <<"w", "h", "i", "c", "h", SP, "s", "e", "q", "u", "e", "n", "c", "e", SP, "i", "s", SP, "c", "o", "r", "r", "e", "c", "t">>

X_Periods == <<"a", ".", "b", ".", "c", ".", "d", ".", "e", ".">>

X_StmtI == <<"S", "t", "a", "t", "e", "m", "e", "n", "t", SP, "I", SP, "i", "s", SP, "t", "r", "u", "e">>

X_Consider == <<"C", "o", "n", "s", "i", "d", "e", "r", SP, "t", "h", "e", SP, "f", "o", "l", "l", "o", "w", "i", "n", "g", SP, "s", "t", "a", "t", "e", "m", "e", "n", "t", "s">>

X_Header == <<"C", "o", "l", "u", "m", "n", SP, "I", NL, "T", "e", "a", NL, "R", "i", "c", "e">>

X_Read == <<"R", "e", "a", "d", SP, "t", "h", "e", SP, "f", "o", "l", "l", "o", "w", "i", "n", "g">>

FragPool == {F_Pipe, F_One, F_Two, F_RomI, F_RomII, F_Match, F_Assert, F_Reason, F_Passage, F_Cols, F_Matched, F_OptA}

FragSeqs == UNION {[1..n -> FragPool] : n \in 0..MaxFrags}

QuestionTexts ==
    {Join(fs, <<SP>>) : fs \in FragSeqs} \cup {Join(fs, <<NL>>) : fs \in FragSeqs}
    \cup {X_Sequence, X_Periods, X_StmtI, X_Consider, X_Header, X_Read, ExampleBlock}

\* the reconstructor and the detector are not part of this specification
TextIdle == TextFresh /\ text = <<>>

InitClassify ==
    /\ TextIdle
    /\ SanIdle
    /\ PhaseIdle
    /\ ClassFresh
    /\ ctext \in QuestionTexts

NextClassify == Classify

SpecClassify == InitClassify /\ [][NextClassify]_vars

\* ------------------------------------------------------------------------
\* Claims about the classifier (checked under SpecClassify)
\* ------------------------------------------------------------------------
FormatTags == {"single", "statement", "table", "match", "assertion", "paragraph"}

\* C4: classify is total: every text, the empty one included, gets exactly
\* one of the six tags, and the empty text gets single.
C4_ClassifyTotal ==
    cfmt # "none" =>
        /\ cfmt \in FormatTags
        /\ ctext = <<>> => cfmt = "single"

C4_Witness == ctext = <<>> /\ cfmt = "single"

\* C5: a text that contains the column delimiter '|' is classified table,
\* also when it holds two or more roman or numeric bullet markers.
C5_PipeIsTable ==
    (cfmt # "none" /\ Contains(ctext, <<"|">>)) => cfmt = "table"

C5_Witness ==
    /\ cfmt = "table"
    /\ Contains(ctext, <<"|">>)
    /\ RomanItems(ctext) >= 2

\* C6 as claimed: the match rule precedes the statement rule, so a text
\* without table signal that contains "match the following" is classified
\* match even with two or more numeric or roman bullet markers.
C6_MatchBeforeStatement ==
    (cfmt # "none" /\ ~TableRule(ctext) /\ MatchRule(ctext)) => cfmt = "match"

\* C6 as amended: the order is table, statement, match: a text without
\* table signal that contains "match the following" is classified statement
\* when a statement rule matches it and match otherwise.
C6_StatementBeforeMatch ==
    (cfmt # "none" /\ ~TableRule(ctext) /\ MatchRule(ctext))
        => cfmt = (IF StatementRule(ctext) THEN "statement" ELSE "match")

C6_Witness ==
    /\ cfmt = "statement"
    /\ ~TableRule(ctext)
    /\ MatchRule(ctext)
    /\ NumericItems(ctext) >= 2

\* ------------------------------------------------------------------------
\* json.loads: a Python value is a record
\*   [str |-> chars]  [num |-> lexeme]  [lit |-> "true" | "false" | "null" ...]
\*   [list |-> values]  [dict |-> <<[key |-> chars, val |-> value], ...>>]
\* (texts of the model hold no \uXXXX escape)
\* ------------------------------------------------------------------------
QUOTE == "\""

BACKSLASH == "\\"

JsonWS == {SP, "\t", NL, "\r"}

JsonFail == [ok |-> FALSE, pos |-> 0, val |-> NoResult]

JsonOk(p, v) == [ok |-> TRUE, pos |-> p, val |-> v]

CharAt(s, p) == IF p >= 1 /\ p <= Len(s) THEN s[p] ELSE "eof"

SkipWS(s, p) == p + SpanLen(Drop(s, p - 1), JsonWS)

\* the character an escape sequence \c stands for
Unescape(c) ==
    CASE c = "n" -> NL
      [] c = "t" -> "\t"
      [] c = "r" -> "\r"
      [] c = "b" -> "backspace"
      [] c = "f" -> "formfeed"
      [] OTHER -> c

\* py_scanstring (strict): s[p] is the first character after the opening quote
RECURSIVE ScanString(_, _, _)
ScanString(s, p, acc) ==
    LET c == CharAt(s, p)
    IN  IF c = "eof" THEN JsonFail
        ELSE IF c = QUOTE THEN JsonOk(p + 1, [str |-> acc])
        ELSE IF c = BACKSLASH
        THEN IF CharAt(s, p + 1) \in {QUOTE, BACKSLASH, "/", "b", "f", "n", "r", "t"}
             THEN ScanString(s, p + 2, Append(acc, Unescape(s[p + 1])))
             ELSE JsonFail
        ELSE IF c \in {NL, "\t", "\r", CTRL} THEN JsonFail
        ELSE ScanString(s, p + 1, Append(acc, c))

\* NUMBER_RE  (-?(?:0|[1-9]\d*))(\.\d+)?([eE][-+]?\d+)?
ScanNumber(s, p) ==
    LET p1 == IF CharAt(s, p) = "-" THEN p + 1 ELSE p
        nint == IF CharAt(s, p1) = "0" THEN 1
                ELSE IF CharAt(s, p1) \in Digits THEN SpanLen(Drop(s, p1 - 1), Digits)
                ELSE 0
        p2 == p1 + nint
        nfrac == IF CharAt(s, p2) = "." THEN SpanLen(Drop(s, p2), Digits) ELSE 0
        p3 == IF nfrac > 0 THEN p2 + 1 + nfrac ELSE p2
        psign == IF CharAt(s, p3 + 1) \in {"-", "+"} THEN p3 + 2 ELSE p3 + 1
        nexp == IF CharAt(s, p3) \in {"e", "E"} THEN SpanLen(Drop(s, psign - 1), Digits) ELSE 0
        p4 == IF nexp > 0 THEN psign + nexp ELSE p3
    IN  IF nint = 0 THEN JsonFail
        ELSE JsonOk(p4, [num |-> SubSeq(s, p, p4 - 1)])

JsonLiterals ==
    { [text |-> <<"t", "r", "u", "e">>, name |-> "true"],
      [text |-> <<"f", "a", "l", "s", "e">>, name |-> "false"],
      [text |-> <<"n", "u", "l", "l">>, name |-> "null"],
      [text |-> <<"N", "a", "N">>, name |-> "NaN"],
      [text |-> <<"I", "n", "f", "i", "n", "i", "t", "y">>, name |-> "Infinity"],
      [text |-> <<"-", "I", "n", "f", "i", "n", "i", "t", "y">>, name |-> "-Infinity"] }

\* dict[key] = val: a repeated key keeps its place and takes the last value
DictPut(items, k, v) ==
    IF \E n \in 1..Len(items) : items[n].key = k
    THEN [n \in 1..Len(items) |-> IF items[n].key = k THEN [key |-> k, val |-> v] ELSE items[n]]
    ELSE Append(items, [key |-> k, val |-> v])

RECURSIVE ScanValue(_, _)
RECURSIVE ScanArrayItems(_, _, _)
RECURSIVE ScanObjectItems(_, _, _)
\* scan_once: the value that starts at s[p]
ScanValue(s, p) ==
    LET c == CharAt(s, p)
    IN  IF c = QUOTE THEN ScanString(s, p + 1, <<>>)
        ELSE IF c = "{"
        THEN LET q == SkipWS(s, p + 1)
             IN  IF CharAt(s, q) = "}" THEN JsonOk(q + 1, [dict |-> <<>>])
                 ELSE ScanObjectItems(s, q, <<>>)
        ELSE IF c = "["
        THEN LET q == SkipWS(s, p + 1)
             IN  IF CharAt(s, q) = "]" THEN JsonOk(q + 1, [list |-> <<>>])
                 ELSE ScanArrayItems(s, q, <<>>)
        ELSE IF \E l \in JsonLiterals : StartsWith(Drop(s, p - 1), l.text)
        THEN LET l == CHOOSE l \in JsonLiterals : StartsWith(Drop(s, p - 1), l.text)
             IN  JsonOk(p + Len(l.text), [lit |-> l.name])
        ELSE ScanNumber(s, p)

\* JSONArray: s[p] starts an item
ScanArrayItems(s, p, acc) ==
    LET item == ScanValue(s, p)
        q == SkipWS(s, item.pos)
    IN  IF ~item.ok THEN JsonFail
        ELSE IF CharAt(s, q) = "]" THEN JsonOk(q + 1, [list |-> Append(acc, item.val)])
        ELSE IF CharAt(s, q) = "," THEN ScanArrayItems(s, SkipWS(s, q + 1), Append(acc, item.val))
        ELSE JsonFail

\* JSONObject: s[p] must be the quote that opens a key
ScanObjectItems(s, p, acc) ==
    IF CharAt(s, p) # QUOTE THEN JsonFail
    ELSE LET k == ScanString(s, p + 1, <<>>)
             colon == SkipWS(s, k.pos)
             v == ScanValue(s, SkipWS(s, colon + 1))
             q == SkipWS(s, v.pos)
         IN  IF ~k.ok \/ CharAt(s, colon) # ":" THEN JsonFail
             ELSE IF ~v.ok THEN JsonFail
             ELSE IF CharAt(s, q) = "}" THEN JsonOk(q + 1, [dict |-> DictPut(acc, k.val.str, v.val)])
             ELSE IF CharAt(s, q) = ","
             THEN ScanObjectItems(s, SkipWS(s, q + 1), DictPut(acc, k.val.str, v.val))
             ELSE JsonFail

\* json.loads(s): one value, blanks around it, nothing else; ok = FALSE for
\* a JSONDecodeError
json_loads(s) ==
    LET v == ScanValue(s, SkipWS(s, 1))
    IN  IF v.ok /\ SkipWS(s, v.pos) = Len(s) + 1 THEN v ELSE JsonFail

\* ------------------------------------------------------------------------
\* phase2/json_sanitizer.py
\* ------------------------------------------------------------------------
\* re.sub(r'"([^"]*?)"', fix_newlines, json_str, flags=re.DOTALL): between
\* each quote and the next one, a line break becomes backslash n
RECURSIVE FixNewlines(_)
FixNewlines(s) ==
    LET a == Find(s, QUOTE)
        rest == Drop(s, a)
        b == Find(rest, QUOTE)
    IN  IF a = 0 \/ b = 0 THEN s
        ELSE Take(s, a) \o ReplaceChar(Take(rest, b - 1), NL, <<BACKSLASH, "n">>)
             \o <<QUOTE>> \o FixNewlines(Drop(rest, b))

\* a trim that stops at the first closing brace
TrimToBraces_FirstClose(s) ==
    IF Find(s, "{") # 0 /\ Find(s, "}") # 0
    THEN SubSeq(s, Find(s, "{"), Find(s, "}"))
    ELSE s

\* lines 44-47: json_str[start : end + 1] when both braces are found
TrimToBraces(s) ==
    IF Find(s, "{") # 0 /\ RFind(s, "}") # 0
    THEN SubSeq(s, Find(s, "{"), RFind(s, "}"))
    ELSE s

\* _try_parse: ok = FALSE when it raises
try_parse(js) == json_loads(TrimToBraces(FixNewlines(RemoveChars(js, {CTRL}))))

ExcerptLen == 200

\* a sentinel that carries the whole text
Sentinel_NoTruncation(js) ==
    [dict |-> << [key |-> <<"e", "x", "t", "r", "a", "c", "t", "e", "d", "_", "s", "u", "c", "c", "e", "s", "s", "f", "u", "l", "l", "y">>,
                  val |-> [lit |-> "false"]],
                 [key |-> <<"e", "r", "r", "o", "r">>,
                  val |-> [str |-> <<"C", "o", "u", "l", "d", SP, "n", "o", "t", SP, "r", "e", "p", "a", "i", "r", SP, "J", "S", "O", "N">>]],
                 [key |-> <<"r", "a", "w", "_", "t", "e", "x", "t", "_", "e", "x", "c", "e", "r", "p", "t">>,
                  val |-> [str |-> js]] >>]

\* lines 21-25: the sentinel failure record
Sentinel(js) ==
    [dict |-> << [key |-> <<"e", "x", "t", "r", "a", "c", "t", "e", "d", "_", "s", "u", "c", "c", "e", "s", "s", "f", "u", "l", "l", "y">>,
                  val |-> [lit |-> "false"]],
                 [key |-> <<"e", "r", "r", "o", "r">>,
                  val |-> [str |-> <<"C", "o", "u", "l", "d", SP, "n", "o", "t", SP, "r", "e", "p", "a", "i", "r", SP, "J", "S", "O", "N">>]],
                 [key |-> <<"r", "a", "w", "_", "t", "e", "x", "t", "_", "e", "x", "c", "e", "r", "p", "t">>,
                  val |-> [str |-> Take(js, ExcerptLen)]] >>]

\* sanitize_and_load(raw_json) is called without block_id (dataset_builder.py
\* line 187): the default applies
DefaultBlockId == "unknown"

\* parser_groq.py lines 48 and 69: the file call_groq logs the repair response to
RepairLogFile(block_id) == <<"logs/groq_raw/response_", block_id, "_repair", ".txt">>

\* open(path, "w").write(content)
WriteFile(files, name, content) ==
    IF \E n \in 1..Len(files) : files[n].name = name
    THEN [n \in 1..Len(files) |->
             IF files[n].name = name THEN [name |-> name, content |-> content] ELSE files[n]]
    ELSE Append(files, [name |-> name, content |-> content])

\* ------------------------------------------------------------------------
\* Inputs of the sanitizer: a body between a prefix and a suffix, and the
\* texts the repair service may answer with
\* ------------------------------------------------------------------------
LongLen == 203

P_None == <<>>

P_Blah == <<"b", "l", "a", "h", SP>>

P_Brace == <<"s", "e", "e", SP, "{", "x", "}", SP>>

P_Quote == <<"s", "a", "y", SP, "\"", SP>>

J_Question == <<"{", "\"", "q", "u", "e", "s", "t", "i", "o", "n", "\"", ":", "\"", "X", "\"", ",", "\"", "o", "p", "t", "i", "o", "n", "s", "\"", ":", "{", "}", "}">>

J_Array == <<"[", "1", ",", "2", "]">>

J_Pretty == <<"{", "\"", "a", "\"", ":", NL, "\"", "b", "\"", "}">>

J_RawNewline == <<"{", "\"", "q", "\"", ":", "\"", "a", NL, "b", "\"", "}">>

J_EscQuote == <<"{", "\"", "q", "\"", ":", "\"", "x", "\\", "\"", "y", "\"", ",", NL, "\"", "n", "\"", ":", "1", "}">>

J_Unbalanced == <<"{", "\"", "q", "\"", ":", "\"", "X", "\"">>

J_Ctrl == <<"{", "\"", "q", "\"", ":", CTRL, "\"", "X", "\"", "}">>

S_None == <<>>

S_Trailing == <<SP, "t", "r", "a", "i", "l", "i", "n", "g">>

S_Brace == <<SP, "{", "o", "k", "}">>

\* a reply that is no JSON at all and longer than the excerpt
J_Long == [k \in 1..LongLen |-> IF k = 1 THEN "{" ELSE IF k > ExcerptLen THEN "y" ELSE "x"]

Prefixes == {P_None, P_Blah, P_Brace, P_Quote}

Bodies == {J_Question, J_Array, J_Pretty, J_RawNewline, J_EscQuote, J_Unbalanced, J_Ctrl, J_Long}

Suffixes == {S_None, S_Trailing, S_Brace}

Envelopes == [prefix : Prefixes, body : Bodies, suffix : Suffixes]

RepairTexts == {J_Question, P_Blah \o J_Question \o S_Trailing, J_Array, J_Unbalanced, <<>>}

\* ------------------------------------------------------------------------
\* sanitize_and_load
\* ------------------------------------------------------------------------
\* lines 10-11: the first parse
FirstParse ==
    /\ spc = "call"
    /\ parse_attempts' = parse_attempts + 1
    /\ IF try_parse(json_str).ok
       THEN result' = try_parse(json_str).val /\ spc' = "returned"
       ELSE result' = result /\ spc' = "need_repair"
    /\ UNCHANGED <<json_str, envelope, repair_requests, repaired, log_files, textVars, classVars, phaseVars>>

\* line 15 and parser_groq.py lines 54-69, 23-51: the repair request is
\* sent, the service answers with a text, call_groq logs it and returns it
RepairReturns ==
    /\ spc = "need_repair"
    /\ repair_requests' = repair_requests + 1
    /\ \E r \in RepairTexts :
          /\ repaired' = r
          /\ log_files' = WriteFile(log_files, RepairLogFile(DefaultBlockId), r)
    /\ spc' = "second"
    /\ UNCHANGED <<json_str, envelope, parse_attempts, result, textVars, classVars, phaseVars>>

\* parser_groq.py lines 27-43: the request itself fails (network, quota, API
\* error); the exception leaves call_groq, request_json_repair and, line 15
\* being outside the inner try, sanitize_and_load
RepairRaises ==
    /\ spc = "need_repair"
    /\ repair_requests' = repair_requests + 1
    /\ spc' = "raised"
    /\ UNCHANGED <<json_str, envelope, parse_attempts, repaired, result, log_files, textVars, classVars, phaseVars>>

\* parser_groq.py lines 45-49: the service answers without content (None):
\* the log file is opened, f.write(None) raises TypeError
RepairNoContent ==
    /\ spc = "need_repair"
    /\ repair_requests' = repair_requests + 1
    /\ log_files' = WriteFile(log_files, RepairLogFile(DefaultBlockId), <<>>)
    /\ spc' = "raised"
    /\ UNCHANGED <<json_str, envelope, parse_attempts, repaired, result, textVars, classVars, phaseVars>>

\* a second parse that asks for another repair when it fails
SecondParse_RepairAgain ==
    /\ spc = "second"
    /\ parse_attempts' = parse_attempts + 1
    /\ IF try_parse(repaired).ok
       THEN result' = try_parse(repaired).val /\ spc' = "returned"
       ELSE result' = result /\ spc' = "need_repair"
    /\ UNCHANGED <<json_str, envelope, repair_requests, repaired, log_files, textVars, classVars, phaseVars>>

\* lines 17-25: the second parse, on the repaired text
SecondParse ==
    /\ spc = "second"
    /\ parse_attempts' = parse_attempts + 1
    /\ result' = IF try_parse(repaired).ok THEN try_parse(repaired).val ELSE Sentinel(json_str)
    /\ spc' = "returned"
    /\ UNCHANGED <<json_str, envelope, repair_requests, repaired, log_files, textVars, classVars, phaseVars>>

InitSanitize ==
    /\ TextIdle
    /\ ClassIdle
    /\ PhaseIdle
    /\ SanFresh
    /\ envelope \in Envelopes
    /\ json_str = envelope.prefix \o envelope.body \o envelope.suffix

NextSanitize ==
    \/ FirstParse
    \/ RepairReturns
    \/ RepairRaises
    \/ RepairNoContent
    \/ SecondParse

SpecSanitize == InitSanitize /\ [][NextSanitize]_vars

\* ------------------------------------------------------------------------
\* Claims about the sanitizer (checked under SpecSanitize)
\* ------------------------------------------------------------------------
\* d[key] of a Python dict value, NoResult when the key is absent
DictGet(d, k) ==
    IF \E n \in 1..Len(d.dict) : d.dict[n].key = k
    THEN d.dict[CHOOSE n \in 1..Len(d.dict) : d.dict[n].key = k].val
    ELSE NoResult

IsDict(v) == "dict" \in DOMAIN v

\* C7: one call issues no repair request when the first parse succeeds and
\* exactly one when it fails, never a second one, and parses at most twice.
C7_BoundedRepair ==
    /\ repair_requests <= 1
    /\ parse_attempts <= 2
    /\ spc \in {"returned", "raised"}
          => repair_requests = (IF try_parse(json_str).ok THEN 0 ELSE 1)

C7_Witness ==
    /\ spc = "returned"
    /\ ~try_parse(repaired).ok
    /\ repair_requests = 1
    /\ parse_attempts = 2

\* C8: sanitize_and_load never raises, whatever the repair service does.
C8_NeverRaises == spc # "raised"

\* C9: when the first parse and the parse of the repaired text both fail,
\* the call returns the sentinel: extracted_successfully false, an error
\* message, and the first 200 characters of the original text.
C9_SentinelOnDoubleFailure ==
    (spc = "returned" /\ ~try_parse(json_str).ok /\ ~try_parse(repaired).ok)
        => /\ IsDict(result)
           /\ DictGet(result, <<"e", "x", "t", "r", "a", "c", "t", "e", "d", "_", "s", "u", "c", "c", "e", "s", "s", "f", "u", "l", "l", "y">>) = [lit |-> "false"]
           /\ "str" \in DOMAIN DictGet(result, <<"e", "r", "r", "o", "r">>)
           /\ DictGet(result, <<"r", "a", "w", "_", "t", "e", "x", "t", "_", "e", "x", "c", "e", "r", "p", "t">>)
                 = [str |-> SubSeq(json_str, 1, Min(200, Len(json_str)))]

C9_Witness ==
    /\ spc = "returned"
    /\ ~try_parse(json_str).ok
    /\ ~try_parse(repaired).ok
    /\ Len(json_str) > 200
    /\ Len(DictGet(result, <<"r", "a", "w", "_", "t", "e", "x", "t", "_", "e", "x", "c", "e", "r", "p", "t">>).str) = 200

\* the body is one well-formed JSON object or array
WellFormedBody == json_loads(envelope.body).ok /\ envelope.body[1] \in {"{", "["}

\* C10 as claimed: a well-formed JSON object or array between any prefix and
\* suffix is extracted by the first parse and returned without repair request.
C10_ExtractEmbedded ==
    (parse_attempts >= 1 /\ WellFormedBody)
        => /\ spc = "returned"
           /\ repair_requests = 0
           /\ result = json_loads(envelope.body).val

\* what the first parse needs of the text around and inside the object
CleanEnvelope ==
    /\ envelope.body[1] = "{"
    /\ ~Contains(envelope.prefix, <<"{">>)
    /\ CountChar(envelope.prefix, QUOTE) % 2 = 0
    /\ ~Contains(envelope.suffix, <<"}">>)
    /\ ~Contains(envelope.body, <<BACKSLASH, QUOTE>>)

\* C10 as amended: a well-formed JSON object (no array) without escaped
\* double quote, after a prefix without '{' and with an even number of
\* double quotes and before a suffix without '}', is extracted by the first
\* parse, from the first '{' to the last '}', and returned without repair request.
C10_ExtractObject ==
    (parse_attempts >= 1 /\ WellFormedBody /\ CleanEnvelope)
        => /\ spc = "returned"
           /\ repair_requests = 0
           /\ result = json_loads(envelope.body).val

C10_Witness ==
    /\ envelope = [prefix |-> P_Blah, body |-> J_Question, suffix |-> S_Trailing]
    /\ spc = "returned"
    /\ repair_requests = 0
    /\ DictGet(result, <<"q", "u", "e", "s", "t", "i", "o", "n">>) = [str |-> <<"X">>]
    /\ DictGet(result, <<"o", "p", "t", "i", "o", "n", "s">>) = [dict |-> <<>>]

\* ------------------------------------------------------------------------
\* phase2/option_normalizer.py
\* ------------------------------------------------------------------------
UpperChar(c) ==
    IF c \in LowerSet
    THEN UpperSeq[CHOOSE k \in 1..26 : LowerSeq[k] = c]
    ELSE c

LabelLetters == {"a", "b", "c", "d", "e", "A", "B", "C", "D", "E"}

LabelDelims == {")", ".", "]"}

NoLabel == [ok |-> FALSE, letter |-> "", len |-> 0]

\* option_label_pat  ^[\(\[]?\s*([a-eA-E])[\)\.\]]?\s*  matched at the start
\* of s: the letter of group 1 and the length of the match
LabelMatch(s) ==
    LET p0 == IF s # <<>> /\ s[1] \in {"(", "["} THEN 1 ELSE 0
        p1 == p0 + SpanLen(Drop(s, p0), Blank)
    IN  IF p1 < Len(s) /\ s[p1 + 1] \in LabelLetters
        THEN LET p2 == p1 + 1
                 p3 == IF p2 < Len(s) /\ s[p2 + 1] \in LabelDelims THEN p2 + 1 ELSE p2
             IN  [ok |-> TRUE, letter |-> s[p1 + 1], len |-> p3 + SpanLen(Drop(s, p3), Blank)]
        ELSE NoLabel

\* lines 54-63: _clean_option_value, on a value of the response
clean_option_value(value) ==
    IF "str" \notin DOMAIN value THEN <<>>
    ELSE LET v == Strip(value.str)
         IN  Drop(v, LabelMatch(v).len)

\* lines 30-43: one iteration of the loop over options_dict.items()
NormalizeStep(cl, item) ==
    LET m == LabelMatch(Strip(item.key))
    IN  IF ~m.ok THEN cl
        ELSE DictPut(cl, <<UpperChar(m.letter)>>, Strip(clean_option_value(item.val)))

\* lines 46-49: the letters A to E that are in cleaned, in that order
RECURSIVE SortByLetter(_, _)
SortByLetter(cl, letters) ==
    IF letters = <<>> THEN <<>>
    ELSE (IF \E n \in 1..Len(cl) : cl[n].key = <<Head(letters)>>
          THEN <<cl[CHOOSE n \in 1..Len(cl) : cl[n].key = <<Head(letters)>>]>>
          ELSE <<>>)
         \o SortByLetter(cl, Tail(letters))

CanonicalLetters == <<"A", "B", "C", "D", "E">>

\* lines 25-26: the argument is no dict
NormalizeNotDict ==
    /\ npc = "call"
    /\ ~IsDict(options_dict)
    /\ final' = <<>>
    /\ npc' = "returned"
    /\ UNCHANGED <<options_dict, nidx, cleaned, notNorm>>

NormalizeItem ==
    /\ npc = "call"
    /\ IsDict(options_dict)
    /\ nidx <= Len(options_dict.dict)
    /\ cleaned' = NormalizeStep(cleaned, options_dict.dict[nidx])
    /\ nidx' = nidx + 1
    /\ UNCHANGED <<options_dict, npc, final, notNorm>>

NormalizeSort ==
    /\ npc = "call"
    /\ IsDict(options_dict)
    /\ nidx > Len(options_dict.dict)
    /\ final' = SortByLetter(cleaned, CanonicalLetters)
    /\ npc' = "returned"
    /\ UNCHANGED <<options_dict, nidx, cleaned, notNorm>>

\* ------------------------------------------------------------------------
\* Inputs of the normalizer: mappings of up to MaxOpts items, and values
\* that are no mapping
\* ------------------------------------------------------------------------
MaxOpts == 2

K_ParenA == <<"a", ")">>

K_DotC == <<"C", ".">>

K_BrB == <<"(", "b", ")">>

K_Apple == <<"a", "p", "p", "l", "e">>

K_X == <<"x">>

K_PadA == <<SP, "A", SP>>

V_LabelDelhi == <<"(", "a", ")", SP, "D", "e", "l", "h", "i">>

V_Mumbai == <<"M", "u", "m", "b", "a", "i">>

V_Delhi == <<"D", "e", "l", "h", "i">>

V_DotPune == <<SP, "b", ".", SP, "P", "u", "n", "e", SP>>

OptKeys == {K_ParenA, K_DotC, K_BrB, K_Apple, K_X, K_PadA}

OptValues == {[str |-> V_LabelDelhi], [str |-> V_Mumbai], [str |-> V_Delhi], [str |-> V_DotPune], [lit |-> "null"]}

OptItems == [key : OptKeys, val : OptValues]

OptDicts ==
    UNION { {its \in [1..n -> OptItems] : \A a, b \in 1..n : a # b => its[a].key # its[b].key} : n \in 0..MaxOpts }

OptionInputs == {[dict |-> its] : its \in OptDicts} \cup {[list |-> <<>>], [lit |-> "null"]}

InitNormalize ==
    /\ TextIdle
    /\ ClassIdle
    /\ SanIdle
    /\ BuildIdle
    /\ ParIdle
    /\ BeautIdle
    /\ MergeIdle
    /\ NormFresh
    /\ options_dict \in OptionInputs

NextNormalize ==
    \/ NormalizeNotDict
    \/ NormalizeItem
    \/ NormalizeSort

SpecNormalize == InitNormalize /\ [][NextNormalize]_vars

\* ------------------------------------------------------------------------
\* Claims about the option normalizer (checked under SpecNormalize)
\* ------------------------------------------------------------------------
\* the key, trimmed, is an option label and nothing else
IsOptionLabel(k) == LabelMatch(Strip(k)).ok /\ LabelMatch(Strip(k)).len = Len(Strip(k))

\* the value starts with a label set off from the text by a bracket, a
\* delimiter or a blank
BeginsWithLabel(v) ==
    /\ LabelMatch(v).ok
    /\ LET p == CHOOSE q \in 1..Len(v) : v[q] \in LabelLetters /\ \A j \in 1..(q - 1) : v[j] \notin LabelLetters
       IN  p = Len(v) \/ v[p + 1] \in LabelDelims \cup Blank

\* C11: the keys of the returned mapping are letters of A..E, each once, in
\* the order A to E, and every one of them comes from an input key that is
\* an option label; an input key that is no option label adds no key.
C11_CanonicalKeys ==
    npc = "returned" =>
        /\ \A n \in 1..Len(final) : \E c \in 1..5 : final[n].key = <<CanonicalLetters[c]>>
        /\ \A a, b \in 1..Len(final) : a < b =>
              (\E c, d \in 1..5 : c < d /\ final[a].key = <<CanonicalLetters[c]>> /\ final[b].key = <<CanonicalLetters[d]>>)
        /\ IsDict(options_dict) =>
              \A n \in 1..Len(final) : \E k \in 1..Len(options_dict.dict) :
                  /\ IsOptionLabel(options_dict.dict[k].key)
                  /\ <<UpperChar(LabelMatch(Strip(options_dict.dict[k].key)).letter)>> = final[n].key

\* C12: the returned value of a key is the input value, trimmed, without its
\* leading option label when it starts with one and unchanged otherwise.
C12_ValuesKeepWording ==
    (npc = "returned" /\ IsDict(options_dict) /\ Len(options_dict.dict) = 1
        /\ IsOptionLabel(options_dict.dict[1].key) /\ "str" \in DOMAIN options_dict.dict[1].val)
    => LET v == Strip(options_dict.dict[1].val.str)
       IN  /\ Len(final) = 1
           /\ final[1].val = IF BeginsWithLabel(v) THEN Strip(Drop(v, LabelMatch(v).len)) ELSE v

\* ------------------------------------------------------------------------
\* phase2/table_formatter.py
\* ------------------------------------------------------------------------
\* [c.strip() for c in ln.split("|")]
StripEach(parts) == [k \in 1..Len(parts) |-> Strip(parts[k])]

\* lines 23-28: one line of a text that holds a pipe
FormatTableLine(ln) ==
    IF is_table_row(ln) THEN Join(StripEach(SplitOn(ln, "|")), <<SP, "|", SP>>) ELSE ln

\* lines 11-32: TableFormatter.format
TableFormatter_format(t) ==
    IF t = <<>> \/ ~is_table_row(t) THEN t
    ELSE LET ls == SplitOn(t, NL)
         IN  Join([k \in 1..Len(ls) |-> FormatTableLine(ls[k])], <<NL>>)

\* ------------------------------------------------------------------------
\* phase2/dataset_builder.py : the statement line-breakers
\* ------------------------------------------------------------------------
W_Statement == <<"s", "t", "a", "t", "e", "m", "e", "n", "t">>

W_Consider == <<"c", "o", "n", "s", "i", "d", "e", "r", SP, "t", "h", "e", SP, "f", "o", "l", "l", "o", "w", "i", "n", "g">>

W_ConsiderStatement == <<"c", "o", "n", "s", "i", "d", "e", "r", SP, "t", "h", "e", SP, "f", "o", "l", "l", "o", "w", "i", "n", "g", SP, "s", "t", "a", "t", "e", "m", "e", "n", "t">>

NoMatch == [ok |-> FALSE, next |-> 0, group |-> <<>>]

\* the text s holds the lower-case word w at position p, in any case
MatchCI(s, p, w) == p + Len(w) - 1 <= Len(s) /\ Lower(SubSeq(s, p, p + Len(w) - 1)) = w

\* number of characters of s from position p on that belong to cs
SpanFrom(s, p, cs) == SpanLen(Drop(s, p - 1), cs)

\* a character of s, "" beyond its end
At(s, p) == IF p >= 1 /\ p <= Len(s) THEN s[p] ELSE ""

\* regex \b before position p of s
WordBoundary(s, p) == IsWordChar(At(s, p - 1)) # IsWordChar(At(s, p))

\* line 47:  Statement\s+([IVX]+)\s*[\.\s]*n\s+  (IGNORECASE), at position p
HardFixMatch(s, p) ==
    IF ~MatchCI(s, p, W_Statement) THEN NoMatch
    ELSE LET a == p + 9
             b == a + SpanFrom(s, a, Blank)
             c == b + SpanFrom(s, b, {"I", "V", "X", "i", "v", "x"})
             d == c + SpanFrom(s, c, Blank \cup {"."})
             e == d + 1 + SpanFrom(s, d + 1, Blank)
         IN  IF b > a /\ c > b /\ At(s, d) \in {"n", "N"} /\ e > d + 1
             THEN [ok |-> TRUE, next |-> e, group |-> SubSeq(s, b, c - 1)]
             ELSE NoMatch

\* lines 46-51: re.sub of the hard fix, from position p on
RECURSIVE SubHardFix(_, _)
SubHardFix(s, p) ==
    IF p > Len(s) THEN <<>>
    ELSE LET m == HardFixMatch(s, p)
         IN  IF m.ok
             THEN <<NL>> \o <<"S", "t", "a", "t", "e", "m", "e", "n", "t", SP>> \o m.group \o <<".", NL, "I", "n", SP>> \o SubHardFix(s, m.next)
             ELSE <<s[p]>> \o SubHardFix(s, p + 1)

\* line 57:  (?:(?<=\n)|^)\s*(?:I|l|1)[\.\s]*n\s+([A-Z])  at position p
BrokenInMatch(s, p) ==
    LET a == p + SpanFrom(s, p, Blank)
        b == a + 1 + SpanFrom(s, a + 1, Blank \cup {"."})
        c == b + 1 + SpanFrom(s, b + 1, Blank)
    IN  IF /\ (p = 1 \/ At(s, p - 1) = NL)
           /\ At(s, a) \in {"I", "l", "1"}
           /\ At(s, b) = "n"
           /\ c > b + 1
           /\ At(s, c) \in UpperSet
        THEN [ok |-> TRUE, next |-> c + 1, group |-> <<s[c]>>]
        ELSE NoMatch

\* lines 56-60
RECURSIVE SubBrokenIn(_, _)
SubBrokenIn(s, p) ==
    IF p > Len(s) THEN <<>>
    ELSE LET m == BrokenInMatch(s, p)
         IN  IF m.ok
             THEN <<"I", "n", SP>> \o m.group \o SubBrokenIn(s, m.next)
             ELSE <<s[p]>> \o SubBrokenIn(s, p + 1)

\* line 66:  (consider the following statements?|consider the following)
ConsiderMatch(s, p) ==
    IF MatchCI(s, p, W_ConsiderStatement)
    THEN LET e == p + Len(W_ConsiderStatement) + (IF At(s, p + Len(W_ConsiderStatement)) \in {"s", "S"} THEN 1 ELSE 0)
         IN  [ok |-> TRUE, next |-> e, group |-> SubSeq(s, p, e - 1)]
    ELSE IF MatchCI(s, p, W_Consider)
    THEN [ok |-> TRUE, next |-> p + Len(W_Consider), group |-> SubSeq(s, p, p + Len(W_Consider) - 1)]
    ELSE NoMatch

\* lines 65-70
RECURSIVE SubConsider(_, _)
SubConsider(s, p) ==
    IF p > Len(s) THEN <<>>
    ELSE LET m == ConsiderMatch(s, p)
         IN  IF m.ok
             THEN m.group \o <<NL>> \o SubConsider(s, m.next)
             ELSE <<s[p]>> \o SubConsider(s, p + 1)

\* line 80:  Statement\s*\n*\s*(I|II|...|X)\b(?!\.)  (IGNORECASE)
HeaderMatch(s, p) ==
    IF ~MatchCI(s, p, W_Statement) THEN NoMatch
    ELSE LET a == p + 9 + SpanFrom(s, p + 9, Blank)
             n == SpanFrom(s, a, UpperSet \cup LowerSet \cup Digits \cup {"_"})
         IN  IF Lower(SubSeq(s, a, a + n - 1)) \in RomanNumerals /\ At(s, a + n) # "."
             THEN [ok |-> TRUE, next |-> a + n, group |-> SubSeq(s, a, a + n - 1)]
             ELSE NoMatch

\* lines 75-84: normalize_statement
RECURSIVE SubHeader(_, _)
SubHeader(s, p) ==
    IF p > Len(s) THEN <<>>
    ELSE LET m == HeaderMatch(s, p)
         IN  IF m.ok
             THEN <<NL>> \o <<"S", "t", "a", "t", "e", "m", "e", "n", "t", SP>> \o m.group \o <<".">> \o SubHeader(s, m.next)
             ELSE <<s[p]>> \o SubHeader(s, p + 1)

\* line 90:  (?<!Statement )(?<!\n)\b(I|II|...|X)\.
RomanBulletMatch(s, p) ==
    IF /\ ~(p > 10 /\ SubSeq(s, p - 10, p - 1) = <<"S", "t", "a", "t", "e", "m", "e", "n", "t", SP>>)
       /\ At(s, p - 1) # NL
       /\ ~IsWordChar(At(s, p - 1))
       /\ \E r \in UpperRomans : SubSeq(s, p, Min(Len(s), p + Len(r))) = r \o <<".">>
    THEN LET r == CHOOSE r \in UpperRomans : SubSeq(s, p, Min(Len(s), p + Len(r))) = r \o <<".">>
         IN  [ok |-> TRUE, next |-> p + Len(r) + 1, group |-> r]
    ELSE NoMatch

\* lines 89-93
RECURSIVE SubRomanBullet(_, _)
SubRomanBullet(s, p) ==
    IF p > Len(s) THEN <<>>
    ELSE LET m == RomanBulletMatch(s, p)
         IN  IF m.ok
             THEN <<NL>> \o m.group \o <<".">> \o SubRomanBullet(s, m.next)
             ELSE <<s[p]>> \o SubRomanBullet(s, p + 1)

\* \d{1,2}\.  at position p: the length of the match, 0 when there is none
BulletNumberLen(s, p) ==
    IF At(s, p) \in Digits /\ At(s, p + 1) \in Digits /\ At(s, p + 2) = "." THEN 3
    ELSE IF At(s, p) \in Digits /\ At(s, p + 1) = "." THEN 2
    ELSE 0

\* line 101:  (?<!\n)(\b\d{1,2}\.)
NumericBulletMatch(s, p) ==
    IF At(s, p - 1) # NL /\ ~IsWordChar(At(s, p - 1)) /\ BulletNumberLen(s, p) > 0
    THEN [ok |-> TRUE, next |-> p + BulletNumberLen(s, p), group |-> SubSeq(s, p, p + BulletNumberLen(s, p) - 1)]
    ELSE NoMatch

\* lines 100-104
RECURSIVE SubNumericBullet(_, _)
SubNumericBullet(s, p) ==
    IF p > Len(s) THEN <<>>
    ELSE LET m == NumericBulletMatch(s, p)
         IN  IF m.ok
             THEN <<NL>> \o m.group \o SubNumericBullet(s, m.next)
             ELSE <<s[p]>> \o SubNumericBullet(s, p + 1)

\* re.sub(r"\n{2,}", r, s): every run of two or more line breaks becomes r
RECURSIVE SquashNewlines(_, _)
SquashNewlines(s, r) ==
    IF s = <<>> THEN <<>>
    ELSE IF SpanLen(s, {NL}) >= 2 THEN r \o SquashNewlines(Drop(s, SpanLen(s, {NL})), r)
    ELSE <<Head(s)>> \o SquashNewlines(Tail(s), r)

\* lines 29-111
apply_statement_linebreaks(t) ==
    IF t = <<>> THEN t
    ELSE LET t0 == SubHardFix(t, 1)
             t1 == SubBrokenIn(t0, 1)
             t2 == SubConsider(t1, 1)
             t3 == SubHeader(t2, 1)
             t4 == SubRomanBullet(t3, 1)
             t5 == SubNumericBullet(t4, 1)
         IN  Strip(SquashNewlines(t5, <<NL, NL>>))

\* line 121:  (consider the following statements[:]?)  (IGNORECASE)
ConsiderStatementsMatch(s, p) ==
    IF MatchCI(s, p, W_ConsiderStatement \o <<"s">>)
    THEN LET e == p + Len(W_ConsiderStatement) + 1 + (IF At(s, p + Len(W_ConsiderStatement) + 1) = ":" THEN 1 ELSE 0)
         IN  [ok |-> TRUE, next |-> e, group |-> SubSeq(s, p, e - 1)]
    ELSE NoMatch

\* lines 120-125
RECURSIVE SubConsiderStatements(_, _)
SubConsiderStatements(s, p) ==
    IF p > Len(s) THEN <<>>
    ELSE LET m == ConsiderStatementsMatch(s, p)
         IN  IF m.ok
             THEN m.group \o <<NL>> \o SubConsiderStatements(s, m.next)
             ELSE <<s[p]>> \o SubConsiderStatements(s, p + 1)

\* lines 127-128:  Statement\s*[-:]?\s*<roman>\b  (IGNORECASE), roman in lower case
StatementNMatch(s, p, roman) ==
    IF ~MatchCI(s, p, W_Statement) THEN NoMatch
    ELSE LET a == p + 9 + SpanFrom(s, p + 9, Blank)
             b == IF At(s, a) \in {"-", ":"} THEN a + 1 ELSE a
             c == b + SpanFrom(s, b, Blank)
         IN  IF MatchCI(s, c, roman) /\ ~IsWordChar(At(s, c + Len(roman)))
             THEN [ok |-> TRUE, next |-> c + Len(roman), group |-> <<>>]
             ELSE NoMatch

RECURSIVE SubStatementN(_, _, _, _)
SubStatementN(s, p, roman, repl) ==
    IF p > Len(s) THEN <<>>
    ELSE LET m == StatementNMatch(s, p, roman)
         IN  IF m.ok
             THEN repl \o SubStatementN(s, m.next, roman, repl)
             ELSE <<s[p]>> \o SubStatementN(s, p + 1, roman, repl)

LowRomans == { <<"I">>, <<"I", "I">>, <<"I", "I", "I">>, <<"I", "V">>, <<"V">> }

\* line 130:  (?<!Statement )\s+\b(I|II|III|IV|V)\.
SpacedRomanMatch(s, p) ==
    LET q == p + SpanFrom(s, p, Blank)
    IN  IF /\ IsSpace(At(s, p))
           /\ ~(p > 10 /\ SubSeq(s, p - 10, p - 1) = <<"S", "t", "a", "t", "e", "m", "e", "n", "t", SP>>)
           /\ \E r \in LowRomans : SubSeq(s, q, Min(Len(s), q + Len(r))) = r \o <<".">>
        THEN LET r == CHOOSE r \in LowRomans : SubSeq(s, q, Min(Len(s), q + Len(r))) = r \o <<".">>
             IN  [ok |-> TRUE, next |-> q + Len(r) + 1, group |-> r]
        ELSE NoMatch

RECURSIVE SubSpacedRoman(_, _)
SubSpacedRoman(s, p) ==
    IF p > Len(s) THEN <<>>
    ELSE LET m == SpacedRomanMatch(s, p)
         IN  IF m.ok
             THEN <<NL>> \o m.group \o <<".">> \o SubSpacedRoman(s, m.next)
             ELSE <<s[p]>> \o SubSpacedRoman(s, p + 1)

\* line 132:  (?m)(^|\n)\s*(\d{1,2}\.)
LineNumberMatch(s, p) ==
    LET q == p + SpanFrom(s, p, Blank)
    IN  IF (p = 1 \/ At(s, p - 1) = NL \/ At(s, p) = NL) /\ BulletNumberLen(s, q) > 0
        THEN [ok |-> TRUE, next |-> q + BulletNumberLen(s, q), group |-> SubSeq(s, q, q + BulletNumberLen(s, q) - 1)]
        ELSE NoMatch

RECURSIVE SubLineNumber(_, _)
SubLineNumber(s, p) ==
    IF p > Len(s) THEN <<>>
    ELSE LET m == LineNumberMatch(s, p)
         IN  IF m.ok
             THEN <<NL>> \o m.group \o SubLineNumber(s, m.next)
             ELSE <<s[p]>> \o SubLineNumber(s, p + 1)

\* lines 116-136
apply_linebreaks(t) ==
    IF t = <<>> THEN t
    ELSE LET t1 == SubConsiderStatements(t, 1)
             t2 == SubStatementN(t1, 1, <<"i">>, <<"S", "t", "a", "t", "e", "m", "e", "n", "t", SP>> \o <<"I">>)
             t3 == SubStatementN(t2, 1, <<"i", "i">>, <<"S", "t", "a", "t", "e", "m", "e", "n", "t", SP>> \o <<"I", "I">>)
             t4 == SubSpacedRoman(t3, 1)
             t5 == SubLineNumber(t4, 1)
         IN  Strip(SquashNewlines(t5, <<NL>>))

\* ------------------------------------------------------------------------
\* phase2/ocr_fixer.py and the helpers of phase2/dataset_builder.py
\* ------------------------------------------------------------------------
\* a fixer that looks for the glitch after leading blanks as well
fix_option_AfterBlanks(t) ==
    IF StartsWith(LStripSet(t, Blank), <<"l", "l", SP>>) THEN <<"A", "l", "l", SP>> \o Drop(LStripSet(t, Blank), 3)
    ELSE IF StartsWith(LStripSet(t, Blank), <<"o", "t", "h", SP>>) THEN <<"B", "o", "t", "h", SP>> \o Drop(LStripSet(t, Blank), 4)
    ELSE t

\* SafeOCRFixer.fix_option
fix_option(t) ==
    IF StartsWith(t, <<"l", "l", SP>>) THEN <<"A", "l", "l", SP>> \o Drop(t, 3)
    ELSE IF StartsWith(t, <<"l", "l", SP, "t", "h", "e", SP>>) THEN <<"A", "l", "l", SP, "t", "h", "e", SP>> \o Drop(t, 7)
    ELSE IF StartsWith(t, <<"o", "t", "h", SP>>) THEN <<"B", "o", "t", "h", SP>> \o Drop(t, 4)
    ELSE t

\* lines 152-159: _postprocess_options, on label -> text
postprocess_options(opts) ==
    [k \in 1..Len(opts) |->
        [key |-> opts[k].key,
         val |-> IF opts[k].val = <<>> THEN <<>> ELSE Strip(fix_option(opts[k].val))]]

\* normalize_options(options_dict): the loop of normalize, then the sort
RECURSIVE NormalizeFold(_, _, _)
NormalizeFold(cl, its, k) ==
    IF k > Len(its) THEN cl ELSE NormalizeFold(NormalizeStep(cl, its[k]), its, k + 1)

normalize_options(v) ==
    IF ~IsDict(v) THEN <<>>
    ELSE SortByLetter(NormalizeFold(<<>>, v.dict, 1), CanonicalLetters)

\* reconstruct_text(text): the loop of reconstruct, then the end of stream
RECURSIVE ReconFold(_, _, _)
ReconFold(st, ls, k) ==
    IF k > Len(ls) THEN st ELSE ReconFold(ReconStep(st, ls, k), ls, k + 1)

reconstruct_text(t) ==
    ReconEnd(ReconFold([structured |-> <<>>, buffer |-> <<>>, table_rows |-> <<>>], preprocess(t), 1))

\* the tag classify returns, as the string stored in the record
FormatString(tag) ==
    CASE tag = "single" -> <<"s", "i", "n", "g", "l", "e">>
      [] tag = "statement" -> <<"s", "t", "a", "t", "e", "m", "e", "n", "t">>
      [] tag = "table" -> <<"t", "a", "b", "l", "e">>
      [] tag = "match" -> <<"m", "a", "t", "c", "h">>
      [] tag = "assertion" -> <<"a", "s", "s", "e", "r", "t", "i", "o", "n">>
      [] tag = "paragraph" -> <<"p", "a", "r", "a", "g", "r", "a", "p", "h">>

\* ------------------------------------------------------------------------
\* Python dict operations on the items of a parsed response
\* ------------------------------------------------------------------------
HasKey(items, k) == \E n \in 1..Len(items) : items[n].key = k

\* d.setdefault(k, v)
SetDefault(items, k, v) == IF HasKey(items, k) THEN items ELSE Append(items, [key |-> k, val |-> v])

\* d.pop(k, None)
Pop(items, k) == SelectSeq(items, LAMBDA it : it.key # k)

\* label -> text as a JSON object
OptionsValue(opts) == [dict |-> [k \in 1..Len(opts) |-> [key |-> opts[k].key, val |-> [str |-> opts[k].val]]]]

K_question == <<"q", "u", "e", "s", "t", "i", "o", "n">>

K_options == <<"o", "p", "t", "i", "o", "n", "s">>

K_format == <<"f", "o", "r", "m", "a", "t">>

K_id == <<"i", "d">>

K_number == <<"n", "u", "m", "b", "e", "r">>

K_extracted == <<"e", "x", "t", "r", "a", "c", "t", "e", "d", "_", "s", "u", "c", "c", "e", "s", "s", "f", "u", "l", "l", "y">>

\* ------------------------------------------------------------------------
\* sanitize_and_load as build_dataset calls it: the text, and what the
\* repair service does when it is asked
\* ------------------------------------------------------------------------
\* json_sanitizer.py lines 6-25 in one step; rep.kind is "text" (the service
\* answers rep.text), "raises" (the request fails) or "none" (no content)
sanitize_and_load(js, rep) ==
    IF try_parse(js).ok THEN [raised |-> FALSE, val |-> try_parse(js).val, repairs |-> 0]
    ELSE IF rep.kind # "text" THEN [raised |-> TRUE, val |-> NoResult, repairs |-> 1]
    ELSE IF try_parse(rep.text).ok THEN [raised |-> FALSE, val |-> try_parse(rep.text).val, repairs |-> 1]
    ELSE [raised |-> FALSE, val |-> Sentinel(js), repairs |-> 1]

\* parser_groq.py lines 45-49: what the repair request leaves in logs/groq_raw
LogAfterRepair(files, js, rep, block_id) ==
    IF try_parse(js).ok \/ rep.kind = "raises" THEN files
    ELSE WriteFile(files, RepairLogFile(block_id), IF rep.kind = "text" THEN rep.text ELSE <<>>)

\* ------------------------------------------------------------------------
\* phase2/dataset_builder.py : build_dataset
\* ------------------------------------------------------------------------
\* id_gen.make_id(tag, idx): an identifier derived from the tag of the source
\* and the 1-based sequence number within it
make_id(tag, n) == [id |-> <<tag, n>>]

\* a builder that keeps the format the response came with
EnrichRecord_KeepHint(parsed) ==
    LET q == DictGet(parsed, K_question)
        raw_q == IF q = NoResult THEN <<>> ELSE Strip(q.str)
        given == DictGet(parsed, K_options)
        options == normalize_options(IF given = NoResult THEN [dict |-> <<>>] ELSE given)
        q_format == classify(raw_q)
        q_text == IF q_format = "statement" THEN apply_statement_linebreaks(reconstruct_text(raw_q))
                  ELSE IF q_format \in {"match", "table", "assertion"} THEN reconstruct_text(raw_q)
                  ELSE raw_q
        d1 == SetDefault(parsed.dict, <<"s", "u", "b", "j", "e", "c", "t">>, [lit |-> "null"])
        d2 == SetDefault(d1, <<"t", "o", "p", "i", "c">>, [lit |-> "null"])
        d3 == SetDefault(d2, <<"s", "u", "b", "_", "t", "o", "p", "i", "c">>, [lit |-> "null"])
        d4 == SetDefault(d3, <<"k", "e", "y", "w", "o", "r", "d", "s">>, [list |-> <<>>])
        d5 == SetDefault(d4, <<"c", "o", "r", "r", "e", "c", "t", "_", "a", "n", "s", "w", "e", "r">>, [lit |-> "null"])
        d6 == SetDefault(d5, <<"i", "s", "_", "m", "u", "l", "t", "i", "_", "c", "o", "r", "r", "e", "c", "t">>, [lit |-> "false"])
        d7 == DictPut(d6, K_question, [str |-> q_text])
        d8 == DictPut(d7, K_options, OptionsValue(postprocess_options(options)))
    IN  SetDefault(d8, K_format, [str |-> FormatString(q_format)])

\* lines 195-231: the fields of the record, before the id is assigned
EnrichRecord(parsed) ==
    LET q == DictGet(parsed, K_question)
        raw_q == IF q = NoResult THEN <<>> ELSE Strip(q.str)
        given == DictGet(parsed, K_options)
        options == normalize_options(IF given = NoResult THEN [dict |-> <<>>] ELSE given)
        q_format == classify(raw_q)
        q_text == IF q_format = "statement" THEN apply_statement_linebreaks(reconstruct_text(raw_q))
                  ELSE IF q_format \in {"match", "table", "assertion"} THEN reconstruct_text(raw_q)
                  ELSE raw_q
        d1 == SetDefault(parsed.dict, <<"s", "u", "b", "j", "e", "c", "t">>, [lit |-> "null"])
        d2 == SetDefault(d1, <<"t", "o", "p", "i", "c">>, [lit |-> "null"])
        d3 == SetDefault(d2, <<"s", "u", "b", "_", "t", "o", "p", "i", "c">>, [lit |-> "null"])
        d4 == SetDefault(d3, <<"k", "e", "y", "w", "o", "r", "d", "s">>, [list |-> <<>>])
        d5 == SetDefault(d4, <<"c", "o", "r", "r", "e", "c", "t", "_", "a", "n", "s", "w", "e", "r">>, [lit |-> "null"])
        d6 == SetDefault(d5, <<"i", "s", "_", "m", "u", "l", "t", "i", "_", "c", "o", "r", "r", "e", "c", "t">>, [lit |-> "false"])
        d7 == DictPut(d6, K_question, [str |-> q_text])
        d8 == DictPut(d7, K_options, OptionsValue(postprocess_options(options)))
    IN  DictPut(d8, K_format, [str |-> FormatString(q_format)])

\* lines 189-231 for the value sanitize_and_load returned: "raised" (an
\* exception leaves the loop), "skipped" (line 190) or "appended" with the
\* record before its id
OutcomeOfParsed(s) ==
    IF s.raised THEN [kind |-> "raised", record |-> <<>>]
    ELSE IF ~IsDict(s.val) THEN [kind |-> "skipped", record |-> <<>>]
    ELSE IF DictGet(s.val, K_question) # NoResult /\ "str" \notin DOMAIN DictGet(s.val, K_question)
    THEN [kind |-> "raised", record |-> <<>>]
    ELSE [kind |-> "appended", record |-> EnrichRecord(s.val)]

\* lines 186-231 for one response
BlockOutcome(raw_json, rep) == OutcomeOfParsed(sanitize_and_load(raw_json, rep))

\* lines 232-234: the id is assigned, the number is dropped
FinishRecord(items, tag, n) == [dict |-> Pop(DictPut(items, K_id, make_id(tag, n)), K_number)]

\* ------------------------------------------------------------------------
\* Inputs of build_dataset: the OCR files, and what the external services
\* answer
\* ------------------------------------------------------------------------
MaxBlocks == 2

OcrFileTags == <<"UPSC_2025_p1_c1", "UPSC_2025_p1_c2">>

R_Single == <<"{", "\"", "q", "u", "e", "s", "t", "i", "o", "n", "\"", ":", "\"", SP, "W", "h", "a", "t", SP, "i", "s", SP, "X", "?", SP, "\"", ",", "\"", "o", "p", "t", "i", "o", "n", "s", "\"", ":", "{", "\"", "a", ")", "\"", ":", "\"", "(", "a", ")", SP, "D", "e", "l", "h", "i", "\"", ",", "\"", "B", ".", "\"", ":", "\"", "l", "l", SP, "\"", "}", ",", "\"", "f", "o", "r", "m", "a", "t", "\"", ":", "\"", "t", "a", "b", "l", "e", "\"", ",", "\"", "n", "u", "m", "b", "e", "r", "\"", ":", "3", "}">>

R_Statement == <<"{", "\"", "f", "o", "r", "m", "a", "t", "\"", ":", "\"", "s", "i", "n", "g", "l", "e", "\"", ",", "\"", "q", "u", "e", "s", "t", "i", "o", "n", "\"", ":", "\"", "W", "h", "i", "c", "h", SP, "i", "s", SP, "t", "r", "u", "e", "?", SP, "1", ".", SP, "R", "i", "c", "e", SP, "2", ".", SP, "T", "e", "a", "\"", ",", "\"", "o", "p", "t", "i", "o", "n", "s", "\"", ":", "[", "]", "}">>

R_NullQuestion == <<"{", "\"", "q", "u", "e", "s", "t", "i", "o", "n", "\"", ":", "n", "u", "l", "l", ",", "\"", "o", "p", "t", "i", "o", "n", "s", "\"", ":", "{", "}", "}">>

R_List == <<"[", "1", ",", "2", "]">>

R_Broken == <<"{", "\"", "q", "u", "e", "s", "t", "i", "o", "n", "\"", ":", "\"", "X", "\"">>

Responses == {R_Single, R_Statement, R_NullQuestion, R_List, R_Broken}

Repairs == {[kind |-> "text", text |-> R_Single], [kind |-> "text", text |-> R_Broken],
            [kind |-> "raises", text |-> <<>>], [kind |-> "none", text |-> <<>>]}

\* the repair service is not asked when the response parses
NotAsked == [kind |-> "not_asked", text |-> <<>>]

\* what the two services may answer for one block
Answers ==
    {a \in [raw_json : Responses, repair : Repairs \cup {NotAsked}] :
        try_parse(a.raw_json).ok <=> a.repair = NotAsked}

\* the question text of a parsed response, trimmed; empty when it has none
QuestionOf(parsed) ==
    LET q == IF IsDict(parsed) THEN DictGet(parsed, K_question) ELSE NoResult
    IN  IF q = NoResult \/ "str" \notin DOMAIN q THEN <<>> ELSE Strip(q.str)

\* what the response said, once sanitized: its question text, the format it
\* names, and the tag the classifier gives that text
ServedBy(s, question) ==
    [question |-> question,
     format |-> IF IsDict(s.val) THEN DictGet(s.val, K_format) ELSE NoResult,
     classified |-> FormatString(classify(question))]

\* for every answer of the two services: what the block becomes, what the
\* repair request leaves in the log, and what the response said
BlockTable ==
    [a \in Answers |->
        [outcome |-> BlockOutcome(a.raw_json, a.repair),
         log |-> LogAfterRepair(<<>>, a.raw_json, a.repair, DefaultBlockId),
         served |-> ServedBy(sanitize_and_load(a.raw_json, a.repair),
                             QuestionOf(sanitize_and_load(a.raw_json, a.repair).val))]]

\* lines 170-181: the next file is read and segmented into n blocks; the
\* segmenter logs its raw response (segmenter_groq.py lines 61-70)
SegmentFile ==
    /\ bpc = "next_file"
    /\ file_idx <= Len(ocr_files)
    /\ \E n \in 0..MaxBlocks :
          /\ file_blocks' = n
          /\ segmented' = Append(segmented, n)
          /\ IF n = 0
             THEN file_idx' = file_idx + 1 /\ bpc' = bpc
             ELSE file_idx' = file_idx /\ bpc' = "blocks"
    /\ block_idx' = 1
    /\ log_files' = WriteFile(log_files, <<"logs/groq_segment_raw/", ocr_files[file_idx], ".txt">>, <<>>)
    /\ UNCHANGED <<ocr_files, block_table, final_dataset, output_file, history, notBuild>>

\* lines 174-178: the file cannot be read, or the segmentation request fails
SegmentRaises ==
    /\ bpc = "next_file"
    /\ file_idx <= Len(ocr_files)
    /\ bpc' = "aborted_in_file"
    /\ UNCHANGED <<ocr_files, block_table, file_idx, file_blocks, block_idx, final_dataset, output_file, segmented, history, log_files, notBuild>>

\* block_parser.py lines 80-112: the exam cannot be told from the tag, the
\* syllabus is missing, or the parse request fails
ParseBlockRaises ==
    /\ bpc = "blocks"
    /\ block_idx <= file_blocks
    /\ bpc' = "aborted_in_block"
    /\ UNCHANGED <<ocr_files, block_table, file_idx, file_blocks, block_idx, final_dataset, output_file, segmented, history, log_files, notBuild>>

\* a loop that puts the new record in front of the collection
ProcessBlock_Prepend ==
    /\ bpc = "blocks"
    /\ block_idx <= file_blocks
    /\ \E a \in Answers :
          LET o == block_table[a].outcome
              written == block_table[a].log
          IN  /\ history' = Append(history, [file |-> file_idx, idx |-> block_idx, answer |-> a])
              /\ log_files' = IF written = <<>> THEN log_files
                              ELSE WriteFile(log_files, written[1].name, written[1].content)
              /\ IF o.kind = "raised"
                 THEN /\ bpc' = "aborted_in_block"
                      /\ UNCHANGED <<final_dataset, block_idx>>
                 ELSE /\ bpc' = bpc
                      /\ block_idx' = block_idx + 1
                      /\ final_dataset' = IF o.kind = "appended"
                                          THEN <<FinishRecord(o.record, ocr_files[file_idx], block_idx)>> \o final_dataset
                                          ELSE final_dataset
    /\ UNCHANGED <<ocr_files, block_table, file_idx, file_blocks, output_file, segmented, notBuild>>

\* lines 183-236: one iteration of the loop over the blocks of the file
ProcessBlock ==
    /\ bpc = "blocks"
    /\ block_idx <= file_blocks
    /\ \E a \in Answers :
          LET o == block_table[a].outcome
              written == block_table[a].log
          IN  /\ history' = Append(history, [file |-> file_idx, idx |-> block_idx, answer |-> a])
              /\ log_files' = IF written = <<>> THEN log_files
                              ELSE WriteFile(log_files, written[1].name, written[1].content)
              /\ IF o.kind = "raised"
                 THEN /\ bpc' = "aborted_in_block"
                      /\ UNCHANGED <<final_dataset, block_idx>>
                 ELSE /\ bpc' = bpc
                      /\ block_idx' = block_idx + 1
                      /\ final_dataset' = IF o.kind = "appended"
                                          THEN Append(final_dataset, FinishRecord(o.record, ocr_files[file_idx], block_idx))
                                          ELSE final_dataset
    /\ UNCHANGED <<ocr_files, block_table, file_idx, file_blocks, output_file, segmented, notBuild>>

\* line 183: the blocks of the file are exhausted
NextFile ==
    /\ bpc = "blocks"
    /\ block_idx > file_blocks
    /\ file_idx' = file_idx + 1
    /\ bpc' = "next_file"
    /\ UNCHANGED <<ocr_files, block_table, file_blocks, block_idx, final_dataset, output_file, segmented, history, log_files, notBuild>>

\* lines 241-246: the collection is written
SaveDataset ==
    /\ bpc = "next_file"
    /\ file_idx > Len(ocr_files)
    /\ output_file' = [list |-> final_dataset]
    /\ bpc' = "saved"
    /\ UNCHANGED <<ocr_files, block_table, file_idx, file_blocks, block_idx, final_dataset, segmented, history, log_files, notBuild>>

InitBuild ==
    /\ TextIdle
    /\ ClassIdle
    /\ SanIdle
    /\ NormIdle
    /\ ParIdle
    /\ BeautIdle
    /\ MergeIdle
    /\ BuildFresh
    /\ ocr_files = OcrFileTags
    /\ block_table = BlockTable

NextBuild ==
    \/ SegmentFile
    \/ SegmentRaises
    \/ ParseBlockRaises
    \/ ProcessBlock
    \/ NextFile
    \/ SaveDataset

SpecBuild == InitBuild /\ [][NextBuild]_vars

\* ------------------------------------------------------------------------
\* Claims about build_dataset (checked under SpecBuild)
\* ------------------------------------------------------------------------
\* the history entry of the block a record was made from
EntryOf(rec) ==
    CHOOSE h \in {history[k] : k \in 1..Len(history)} :
        make_id(ocr_files[h.file], h.idx) = DictGet(rec, K_id)

\* what the services said for the block a record was made from
Served(rec) == block_table[EntryOf(rec).answer].served

\* C13: the format of every record of the output collection is the tag the
\* classifier returns for the (trimmed) question text of the response,
\* whatever format the response itself names.
C13_ClassifierAuthoritative ==
    \A n \in 1..Len(final_dataset) :
        DictGet(final_dataset[n], K_format) = [str |-> Served(final_dataset[n]).classified]

C13_Witness ==
    \E n \in 1..Len(final_dataset) :
        /\ Served(final_dataset[n]).format = [str |-> FormatString("table")]
        /\ DictGet(final_dataset[n], K_format) = [str |-> FormatString("single")]

\* C14: no failure met while one block is processed ends the run: the
\* remaining blocks and files are still processed and the output written.
C14_FailureIsolated == bpc # "aborted_in_block"

RECURSIVE SumSeq(_)
SumSeq(q) == IF q = <<>> THEN 0 ELSE Head(q) + SumSeq(Tail(q))

\* neither the response nor the repaired text could be parsed
Unparsable ==
    {a \in Answers : ~try_parse(a.raw_json).ok /\ a.repair.kind = "text" /\ ~try_parse(a.repair.text).ok}

\* C15: when the run has saved its output, every block the segmenter
\* returned has exactly one record in it, and the record of a block whose
\* response could not be parsed says extracted_successfully = false.
C15_NoBlockVanishes ==
    bpc = "saved" =>
        /\ Len(output_file.list) = SumSeq(segmented)
        /\ \A k \in 1..Len(history) :
              /\ Cardinality({n \in 1..Len(output_file.list) :
                     DictGet(output_file.list[n], K_id) = make_id(ocr_files[history[k].file], history[k].idx)}) = 1
              /\ history[k].answer \in Unparsable =>
                    \E n \in 1..Len(output_file.list) :
                        /\ DictGet(output_file.list[n], K_id) = make_id(ocr_files[history[k].file], history[k].idx)
                        /\ DictGet(output_file.list[n], K_extracted) = [lit |-> "false"]

\* position of the file and index of the block a record was made from
Origin(rec) ==
    LET id == DictGet(rec, K_id).id
    IN  <<CHOOSE f \in 1..Len(ocr_files) : ocr_files[f] = id[1], id[2]>>

OriginBefore(a, b) == a[1] < b[1] \/ (a[1] = b[1] /\ a[2] < b[2])

\* the records are in the order (file, block index)
InSourceOrder(recs) ==
    \A a, b \in 1..Len(recs) : a < b => OriginBefore(Origin(recs[a]), Origin(recs[b]))

\* C16: the records of the collection, and of the written output, are in the
\* order (position of the file in ocr_files, index of the block in the
\* file), and a step only appends to the collection: the records already
\* in it stay as they are, where they are.
C16_OrderedAppendOnly ==
    /\ [](InSourceOrder(final_dataset) /\ (bpc = "saved" => output_file = [list |-> final_dataset]))
    /\ [][/\ Len(final_dataset') >= Len(final_dataset)
          /\ SubSeq(final_dataset', 1, Len(final_dataset)) = final_dataset]_vars

C16_Witness ==
    /\ bpc = "saved"
    /\ Len(output_file.list) >= 3
    /\ \E a, b \in 1..Len(output_file.list) : Origin(output_file.list[a])[1] # Origin(output_file.list[b])[1]

\* ------------------------------------------------------------------------
\* The per-block steps of build_dataset (lines 186-232) run for two blocks
\* by an outer orchestrator, in any interleaving. build_dataset calls
\* sanitize_and_load(raw_json) without a block id (line 187), so every
\* repair request is logged under block_id = "unknown".
\* ------------------------------------------------------------------------
Workers == {1, 2}

\* the content of a file, empty when it does not exist
FileContent(files, name) ==
    IF \E n \in 1..Len(files) : files[n].name = name
    THEN (CHOOSE f \in {files[n] : n \in 1..Len(files)} : f.name = name).content
    ELSE <<>>

\* a handle opened with "w" writes from position 0 over what the file holds
WriteAtStart(files, name, content) ==
    WriteFile(files, name, content \o Drop(FileContent(files, name), Len(content)))

\* line 186: parse_block returns the response of the service
WParseBlock(w) ==
    /\ wpc[w] = "start"
    /\ \E a \in Answers : wans' = [wans EXCEPT ![w] = a]
    /\ wpc' = [wpc EXCEPT ![w] = "first_parse"]
    /\ UNCHANGED <<wrec, log_files, notParallel>>

\* json_sanitizer.py lines 11-13: the first parse
WFirstParse(w) ==
    /\ wpc[w] = "first_parse"
    /\ wpc' = [wpc EXCEPT ![w] = IF try_parse(wans[w].raw_json).ok THEN "enrich" ELSE "repair_call"]
    /\ UNCHANGED <<wans, wrec, log_files, notParallel>>

\* parser_groq.py lines 27-48: the repair request, then the log file is opened
\* for writing, which empties it
WRepairCall(w) ==
    /\ wpc[w] = "repair_call"
    /\ IF wans[w].repair.kind = "raises"
       THEN /\ wpc' = [wpc EXCEPT ![w] = "raised"]
            /\ UNCHANGED log_files
       ELSE /\ wpc' = [wpc EXCEPT ![w] = "repair_write"]
            /\ log_files' = WriteFile(log_files, RepairLogFile(DefaultBlockId), <<>>)
    /\ UNCHANGED <<wans, wrec, notParallel>>

\* parser_groq.py line 49: the content is written and the file closed
WRepairWrite(w) ==
    /\ wpc[w] = "repair_write"
    /\ IF wans[w].repair.kind = "none"
       THEN /\ wpc' = [wpc EXCEPT ![w] = "raised"]
            /\ UNCHANGED log_files
       ELSE /\ wpc' = [wpc EXCEPT ![w] = "enrich"]
            /\ log_files' = WriteAtStart(log_files, RepairLogFile(DefaultBlockId), wans[w].repair.text)
    /\ UNCHANGED <<wans, wrec, notParallel>>

\* json_sanitizer.py lines 17-25 and dataset_builder.py lines 189-231
WEnrich(w) ==
    /\ wpc[w] = "enrich"
    /\ wrec' = [wrec EXCEPT ![w] = block_table[wans[w]].outcome]
    /\ wpc' = [wpc EXCEPT ![w] = IF block_table[wans[w]].outcome.kind = "raised" THEN "raised" ELSE "done"]
    /\ UNCHANGED <<wans, log_files, notParallel>>

InitParallel ==
    /\ TextIdle
    /\ ClassIdle
    /\ SanIdle
    /\ NormIdle
    /\ BeautIdle
    /\ MergeIdle
    /\ BuildFresh
    /\ ocr_files = <<>>
    /\ block_table = BlockTable
    /\ wpc = [w \in Workers |-> "start"]
    /\ wans = [w \in Workers |-> NoResult]
    /\ wrec = [w \in Workers |-> NoResult]

NextParallel ==
    \E w \in Workers :
        \/ WParseBlock(w)
        \/ WFirstParse(w)
        \/ WRepairCall(w)
        \/ WRepairWrite(w)
        \/ WEnrich(w)

SpecParallel == InitParallel /\ [][NextParallel]_vars

\* C17: when the steps of both blocks have ended, each block has the record
\* and the written files it has when it is processed alone.
C17_NoSharedState ==
    (\A w \in Workers : wpc[w] \in {"done", "raised"}) =>
        \A w \in Workers :
            /\ wpc[w] = "done" => wrec[w] = BlockOutcome(wans[w].raw_json, wans[w].repair)
            /\ \A n \in 1..Len(block_table[wans[w]].log) :
                  FileContent(log_files, block_table[wans[w]].log[n].name) = block_table[wans[w]].log[n].content

\* ------------------------------------------------------------------------
\* phase2/match_formatter.py : MatchFormatter.format, the path that returns
\* at line 66 (a text in which step 2 finds no roman numeral marker)
\* ------------------------------------------------------------------------
\* line 44:  \s*\(?[a-eA-E]\)\s+.*$  (IGNORECASE), at position p
MergedOptionMatch(s, p) ==
    LET a == p + SpanFrom(s, p, Blank)
        b == IF At(s, a) = "(" THEN a + 1 ELSE a
        c == b + 2 + SpanFrom(s, b + 2, Blank)
    IN  /\ At(s, b) \in LabelLetters
        /\ At(s, b + 1) = ")"
        /\ c > b + 2
        /\ \A k \in c..Len(s) : s[k] # NL

\* lines 44-45: everything from the first option marker on is removed
RemoveMergedOptions(s) ==
    IF \E p \in 1..Len(s) : MergedOptionMatch(s, p)
    THEN Take(s, (CHOOSE p \in 1..Len(s) :
                     MergedOptionMatch(s, p) /\ \A k \in 1..(p - 1) : ~MergedOptionMatch(s, k)) - 1)
    ELSE s

\* line 50:  (consider the following)\s+  (IGNORECASE), at position p
ConsiderSpaceMatch(s, p) == MatchCI(s, p, W_Consider) /\ At(s, p + Len(W_Consider)) \in Blank

\* lines 49-55: the first match is replaced by its group and a newline
ConsiderBreak(s) ==
    IF \E p \in 1..Len(s) : ConsiderSpaceMatch(s, p)
    THEN LET p == CHOOSE q \in 1..Len(s) :
                      ConsiderSpaceMatch(s, q) /\ \A k \in 1..(q - 1) : ~ConsiderSpaceMatch(s, k)
             e == p + Len(W_Consider)
         IN  Take(s, e - 1) \o <<NL>> \o Drop(s, e - 1 + SpanFrom(s, e, Blank))
    ELSE s

AllRomans ==
    { <<"i">>, <<"i", "i">>, <<"i", "i", "i">>, <<"i", "v">>, <<"v">>, <<"v", "i">>,
      <<"v", "i", "i">>, <<"v", "i", "i", "i">>, <<"i", "x">>, <<"x">> }

\* line 59:  (?<!Statement )\b(I|II|III|IV|V|VI|VII|VIII|IX|X)\.?\s+  (IGNORECASE), at position p
RomanMarkerAt(s, p) ==
    /\ ~(p > 10 /\ Lower(SubSeq(s, p - 10, p - 1)) = W_Statement \o <<SP>>)
    /\ WordBoundary(s, p)
    /\ \E r \in AllRomans :
          /\ MatchCI(s, p, r)
          /\ At(s, IF At(s, p + Len(r)) = "." THEN p + Len(r) + 1 ELSE p + Len(r)) \in Blank

\* lines 62-64: matches is not empty
HasRomanMarker(s) == \E p \in 1..Len(s) : RomanMarkerAt(s, p)

\* lines 39-55
MatchPrepared(t) == ConsiderBreak(Strip(RemoveMergedOptions(Strip(t))))

\* lines 36-66
MatchFormatter_format(t) == IF t = <<>> THEN t ELSE MatchPrepared(t)

\* ------------------------------------------------------------------------
\* The beautifiers, each called with a text
\* ------------------------------------------------------------------------
B_Consider == <<"C", "o", "n", "s", "i", "d", "e", "r", SP, "t", "h", "e", SP, "f", "o", "l", "l", "o", "w", "i", "n", "g", SP, "s", "t", "a", "t", "e", "m", "e", "n", "t", "s">>

B_One == <<"1", ".", SP, "R", "i", "c", "e">>

B_Two == <<"2", ".", SP, "T", "e", "a">>

B_Which == <<"W", "h", "i", "c", "h", SP, "s", "t", "a", "t", "e", "m", "e", "n", "t", SP, "i", "n", SP, "t", "h", "e", SP, "l", "i", "s", "t">>

B_Row == <<"T", "e", "a", SP, "|", SP, "4">>

B_Option == <<"(", "a", ")", SP, "D", "e", "l", "h", "i">>

B_Lists == <<"M", "a", "t", "c", "h", SP, "L", "i", "s", "t", SP, "I", SP, "w", "i", "t", "h", SP, "L", "i", "s", "t", SP, "I", "I">>

B_StmtI == <<"t", "h", "e", SP, "s", "t", "a", "t", "e", "m", "e", "n", "t", SP, "I", SP, "m", "a", "d", "e">>

B_India == <<"I", "n", "d", "i", "a", ")", SP, "i", "s", SP, "l", "a", "r", "g", "e">>

BeautyFrags == {B_Consider, B_One, B_Two, B_Which, B_Row, B_Option, B_Lists, B_StmtI, B_India}

\* the pieces alone and two of them on one line
BeautyTexts == BeautyFrags \cup {a \o <<SP>> \o b : a \in BeautyFrags, b \in BeautyFrags} \cup {<<>>}

\* table_formatter.py lines 11-32
FormatTable ==
    /\ bfun = "none"
    /\ bfun' = "TableFormatter.format"
    /\ bout' = TableFormatter_format(btext)
    /\ UNCHANGED <<btext, notBeautify>>

\* dataset_builder.py lines 29-111
ApplyStatementLinebreaks ==
    /\ bfun = "none"
    /\ bfun' = "_apply_statement_linebreaks"
    /\ bout' = apply_statement_linebreaks(btext)
    /\ UNCHANGED <<btext, notBeautify>>

\* dataset_builder.py lines 116-136
ApplyLinebreaks ==
    /\ bfun = "none"
    /\ bfun' = "_apply_linebreaks"
    /\ bout' = apply_linebreaks(btext)
    /\ UNCHANGED <<btext, notBeautify>>

\* match_formatter.py lines 36-66, for a text that returns at line 66
FormatMatch ==
    /\ bfun = "none"
    /\ btext = <<>> \/ ~HasRomanMarker(MatchPrepared(btext))
    /\ bfun' = "MatchFormatter.format"
    /\ bout' = MatchFormatter_format(btext)
    /\ UNCHANGED <<btext, notBeautify>>

InitBeautify ==
    /\ TextIdle
    /\ ClassIdle
    /\ SanIdle
    /\ NormIdle
    /\ BuildIdle
    /\ ParIdle
    /\ MergeIdle
    /\ BeautFresh
    /\ btext \in BeautyTexts

NextBeautify ==
    \/ FormatTable
    \/ ApplyStatementLinebreaks
    \/ ApplyLinebreaks
    \/ FormatMatch

SpecBeautify == InitBeautify /\ [][NextBeautify]_vars

\* the words of a text: its maximal runs of letters and digits, in order
RECURSIVE WordsOf(_)
WordsOf(s) ==
    IF s = <<>> THEN <<>>
    ELSE IF ~IsAlnum(s[1]) THEN WordsOf(Tail(s))
    ELSE LET n == SpanLen(s, UpperSet \cup LowerSet \cup Digits)
         IN  <<Take(s, n)>> \o WordsOf(Drop(s, n))

\* C20: the text a beautifier returns has the words of the text it was
\* called with, in the same order: no word is altered, deleted, added or
\* moved.
C20_WordingPreserved == bfun # "none" => WordsOf(bout) = WordsOf(btext)

\* ------------------------------------------------------------------------
\* phase2/ocr_fixer.py : SafeOCRFixer.fix_option, called with an option value
\* ------------------------------------------------------------------------
G_None == <<>>

G_ll == <<"l", "l", SP>>

G_oth == <<"o", "t", "h", SP>>

G_llthe == <<"l", "l", SP, "t", "h", "e", SP>>

G_All == <<"A", "l", "l", SP>>

G_Both == <<"B", "o", "t", "h", SP>>

G_l == <<"l", SP>>

G_llNoSpace == <<"l", "l">>

G_Spll == <<SP, "l", "l", SP>>

G_Spoth == <<SP, "o", "t", "h", SP>>

G_Small == <<"s", "m", "a", "l", "l", SP>>

T_None == <<>>

T_Above == <<"o", "f", SP, "t", "h", "e", SP, "a", "b", "o", "v", "e">>

T_OneTwo == <<"1", SP, "a", "n", "d", SP, "2">>

T_ll == <<"l", "l", SP>>

T_oth == <<"o", "t", "h", SP, "x">>

T_Small == <<"s", "m", "a", "l", "l", SP, "o", "t", "h", SP>>

GlitchHeads == {G_None, G_ll, G_oth, G_llthe, G_All, G_Both, G_l, G_llNoSpace, G_Spll, G_Spoth, G_Small}

GlitchTails == {T_None, T_Above, T_OneTwo, T_ll, T_oth, T_Small}

OptionValues == {h \o t : h \in GlitchHeads, t \in GlitchTails}

\* ocr_fixer.py lines 11-25
FixOption ==
    /\ bfun = "none"
    /\ bfun' = "fix_option"
    /\ bout' = fix_option(btext)
    /\ UNCHANGED <<btext, notBeautify>>

InitFixOption ==
    /\ TextIdle
    /\ ClassIdle
    /\ SanIdle
    /\ NormIdle
    /\ BuildIdle
    /\ ParIdle
    /\ MergeIdle
    /\ BeautFresh
    /\ btext \in OptionValues

NextFixOption == FixOption

SpecFixOption == InitFixOption /\ [][NextFixOption]_vars

\* C21: a value that begins with "ll " is returned with "All " in place of
\* these three characters, a value that begins with "oth " with "Both " in
\* place of these four, every other value as it is; what follows the
\* prefix is returned as it is, so at most one fix is applied.
C21_PrefixFixOnly ==
    bfun = "fix_option" =>
        /\ StartsWith(btext, G_ll) => bout = G_All \o Drop(btext, 3)
        /\ StartsWith(btext, G_oth) => bout = G_Both \o Drop(btext, 4)
        /\ ~StartsWith(btext, G_ll) /\ ~StartsWith(btext, G_oth) => bout = btext

\* a value with the glitch at its start and once more further on: only the
\* first is fixed
C21_Witness ==
    /\ bfun = "fix_option"
    /\ btext = G_ll \o T_oth
    /\ bout = G_All \o T_oth

\* ------------------------------------------------------------------------
\* More claims about the classifier (checked under SpecClassify)
\* ------------------------------------------------------------------------
\* C22: the one-stem question "1. What is the capital of France?" followed
\* on separate lines by "a) Paris" and "b) Lyon" (one numeric marker,
\* labeled option lines, no other format signal) is classified single.
C22_OptionLabelsNotStatement ==
    (cfmt # "none" /\ ctext = ExampleBlock) => cfmt = "single"

\* C23: a text without the column delimiter '|' that contains "correctly
\* matched" or "sequence is correct" (in any case) is classified match.
C23_MatchTriggers ==
    (/\ cfmt # "none"
     /\ ~Contains(ctext, <<"|">>)
     /\ \/ Contains(Lower(ctext), F_Matched)
        \/ Contains(Lower(ctext), <<"s", "e", "q", "u", "e", "n", "c", "e", SP, "i", "s", SP, "c", "o", "r", "r", "e", "c", "t">>))
        => cfmt = "match"

\* ------------------------------------------------------------------------
\* More claims about the reconstructor and the block detector (checked
\* under Spec)
\* ------------------------------------------------------------------------
\* line ls[k] reaches the lookahead merge: a lone roman header followed by a
\* line that is no roman header, or a lone "N." followed by a line
LoneHeaderMerge(ls, k) ==
    /\ k < Len(ls)
    /\ ~is_table_row(ls[k])
    /\ ~is_option(ls[k])
    /\ ~is_statement_header(ls[k])
    /\ \/ is_roman(ls[k]) /\ ~is_roman(ls[k + 1])
       \/ ~is_roman(ls[k]) /\ is_list_digit_header(ls[k])

\* the unit the lookahead merge makes of ls[k] and ls[k + 1]
MergedUnit(ls, k) ==
    IF is_roman(ls[k]) THEN RomanUnit(ls, k) ELSE DigitUnit(ls, k)

\* C24: the lookahead merge consumes both lines: a text of two lines, a
\* lone header and the line merged into it, is reconstructed as one unit,
\* the second line is not processed again.
C24_LookaheadConsumes ==
    (pc = "reconstructed" /\ pass = 1 /\ Len(lines) = 2 /\ LoneHeaderMerge(lines, 1))
        => out = CollapseSpaces(MergedUnit(lines, 1))

\* the line reaches the plain text merge (lines 144-152)
PlainLine(line) ==
    /\ ~is_table_row(line)
    /\ ~is_option(line)
    /\ ~is_statement_header(line)
    /\ ~is_roman(line)
    /\ ~is_list_digit_header(line)
    /\ ~is_list_digit_item(line)

\* C25: the units keep the order of the lines across a table flush: a
\* plain line that precedes table rows is emitted before the flattened
\* rows, so the reconstructed text starts with that line.
C25_UnitsInLineOrder ==
    (/\ pc = "reconstructed"
     /\ pass = 1
     /\ Len(lines) >= 2
     /\ PlainLine(lines[1])
     /\ is_table_row(lines[2]))
        => StartsWith(out, CollapseSpaces(lines[1]))

\* a labeled choice: a single letter A to E, after an optional opening
\* bracket, followed by a delimiter
LabeledChoice(line) ==
    LET r == IF line # <<>> /\ line[1] \in {"(", "["} THEN Tail(line) ELSE line
    IN  /\ Len(r) >= 2
        /\ r[1] \in OptionLetters \cup {"e", "E"}
        /\ r[2] \in {")", ".", "]"}

\* a line that is no table row, labeled choice, statement header, roman or
\* numeric header or item
PlainText(line) ==
    /\ ~is_table_row(line)
    /\ ~LabeledChoice(line)
    /\ ~is_statement_header(line)
    /\ ~is_roman(line)
    /\ ~is_list_digit_header(line)
    /\ ~is_list_digit_item(line)

\* C26: with no table rows pending, a plain text line seeds an empty
\* buffer, starts a new buffer after emitting one that ends in . ? ! or :
\* and is joined to any other buffer with a single space; a labeled choice
\* line flushes the buffer and is emitted as a unit of its own.
C26_PlainMergeRule ==
    [][(ReconLine /\ table_rows = <<>>) =>
          LET line == lines[i]
          IN  /\ PlainText(line) =>
                    IF buffer = <<>>
                    THEN buffer' = line /\ structured' = structured
                    ELSE IF buffer[Len(buffer)] \in {".", "?", "!", ":"}
                    THEN buffer' = line /\ structured' = Append(structured, buffer)
                    ELSE buffer' = buffer \o <<SP>> \o line /\ structured' = structured
              /\ LabeledChoice(line) =>
                    /\ buffer' = <<>>
                    /\ structured' = (IF buffer = <<>> THEN structured
                                      ELSE Append(structured, Strip(buffer))) \o <<line>>]_vars

\* the line matches one of the four continuation patterns
PatternLine(line) ==
    \/ table_match(line)
    \/ digit_list(line)
    \/ detector_roman(line)
    \/ detector_is_option(line)

\* the line reaches the question start test with a block open: it matches
\* no continuation pattern, does not begin with a lower-case letter, has
\* more than three words and is a probable question start
ReachesStart(line) ==
    /\ curr # <<>>
    /\ ~PatternLine(line)
    /\ ~IsLowerChar(line[1])
    /\ Len(SplitWS(line)) > 3
    /\ is_probable_question_start(line)

\* C27: a probable question start reached while the current block has
\* fewer than 5 words is appended to it and no block is committed; reached
\* while the block has 5 words or more, the block is committed and a new
\* one begins with the line. A line that matches the table row, numeric
\* list, roman numeral or option pattern commits no block.
C27_MinSizeGuard ==
    [][DetectLine =>
          LET line == dlines[idx]
          IN  /\ (ReachesStart(line) /\ BlockWords(curr) < 5)
                    => curr' = Append(curr, line) /\ blocks' = blocks
              /\ (ReachesStart(line) /\ BlockWords(curr) >= 5)
                    => curr' = <<line>> /\ blocks' = Append(blocks, BlockText(curr))
              /\ PatternLine(line) => blocks' = blocks]_vars

\* a question start merged into a block of two words, and the next one
\* committing the block of eight words
C27_Witness ==
    /\ pc = "detect"
    /\ dlines = <<L_Wrap, L_Which, L_Which>>
    /\ idx = 4
    /\ blocks = <<Join(<<L_Wrap, L_Which>>, <<NL>>)>>
    /\ curr = <<L_Which>>

\* the lines of the blocks joined with newlines
LinesOfBlocks(bs) == IF bs = <<>> THEN <<>> ELSE SplitOn(Join(bs, <<NL>>), NL)

\* C28: the blocks returned by detect, joined with newlines and split into
\* lines, are exactly the trimmed non-blank lines of the input text in
\* their order: no line is lost, repeated, moved or put in two blocks.
C28_LinesConserved ==
    pc = "detected" => LinesOfBlocks(blocks) = NonBlankLines(dtext)

\* a short fragment appended to the open block, between two question starts
\* that end up in two blocks
C28_Witness ==
    /\ pc = "detected"
    /\ dsrc = "raw"
    /\ dlines = <<L_Which, L_Sent, L_Which>>
    /\ blocks = <<Join(<<L_Which, L_Sent>>, <<NL>>), L_Which>>

\* ------------------------------------------------------------------------
\* More claims about the option normalizer (checked under SpecNormalize)
\* ------------------------------------------------------------------------
\* the mapping normalize returned, as the argument of a next call
AsOptionsDict(fin) ==
    [dict |-> [k \in 1..Len(fin) |-> [key |-> fin[k].key, val |-> [str |-> fin[k].val]]]]

\* C29: the option normalizer is idempotent: normalizing the mapping it
\* returned gives that same mapping, keys and values.
C29_NormalizeIdempotent ==
    npc = "returned" => normalize_options(AsOptionsDict(final)) = final

\* ------------------------------------------------------------------------
\* merge_json_to_csv.py : merge_json_files, called with its default
\* arguments (append, validate and pretty_format off, skip_null_answer on)
\* ------------------------------------------------------------------------
\* s.replace(sub, "")
RECURSIVE RemoveAll(_, _)
RemoveAll(s, sub) ==
    IF s = <<>> THEN <<>>
    ELSE IF StartsWith(s, sub) THEN RemoveAll(Drop(s, Len(sub)), sub)
    ELSE <<Head(s)>> \o RemoveAll(Tail(s), sub)

AllDigits(s) == \A k \in 1..Len(s) : s[k] \in Digits

\* the first run of four digits in s, <<>> when it has none
FirstYear(s) ==
    IF \E k \in 1..(Len(s) - 3) : AllDigits(SubSeq(s, k, k + 3))
    THEN LET k == CHOOSE k \in 1..(Len(s) - 3) :
                     /\ AllDigits(SubSeq(s, k, k + 3))
                     /\ \A j \in 1..(k - 1) : ~AllDigits(SubSeq(s, j, j + 3))
         IN  SubSeq(s, k, k + 3)
    ELSE <<>>

\* s ends with "_" and four digits
EndsWithYear(s) ==
    Len(s) >= 5 /\ s[Len(s) - 4] = "_" /\ AllDigits(SubSeq(s, Len(s) - 3, Len(s)))

NoExam == <<>>

NoYear == <<>>

\* lines 19-50: the exam name and the year in a file name; None is the empty
\* text, the year is kept as its four digits
parse_filename(filename) ==
    LET base == RemoveAll(filename, <<".", "j", "s", "o", "n">>)
        exam == IF EndsWithYear(base) THEN Take(base, Len(base) - 5) ELSE base
    IN  IF EndsWithYear(base) /\ Len(base) >= 6
        THEN [exam |-> exam, year |-> SubSeq(base, Len(base) - 3, Len(base))]
        ELSE IF FirstYear(base) # <<>> /\ exam # <<>>
        THEN [exam |-> exam, year |-> FirstYear(base)]
        ELSE IF base # <<>> THEN [exam |-> base, year |-> NoYear]
        ELSE [exam |-> NoExam, year |-> NoYear]

\* a value of the data array is a JSON object
IsQuestionObject(question) == "id" \in DOMAIN question

\* lines 403-404: correct_answer is null or a blank string
has_null_answer(question) ==
    \/ "str" \notin DOMAIN question.correct_answer
    \/ Strip(question.correct_answer.str) = <<>>

valid_formats == {"single", "statement", "match", "table", "assertion", "paragraph"}

\* lines 94-150: validate_question with check_correct_answer off; the set of
\* validation errors
validate_question(question) ==
    {e \in {"question", "options", "format", "extracted"} :
        \/ e = "question" /\ Strip(question.question) = <<>>
        \/ e = "options" /\ \E opt \in {"A", "B", "C", "D"} :
                                opt \notin DOMAIN question.options \/ Strip(question.options[opt]) = <<>>
        \/ e = "format" /\ question.format # "" /\ question.format \notin valid_formats
        \/ e = "extracted" /\ ~question.extracted_successfully}

\* line 85: the length below which a text is too short for a paragraph
ParagraphLen == 100

\* lines 53-91: does the question text show the cue of its declared format
validate_question_format(question) ==
    LET question_text == Lower(question.question)
        has(w) == Contains(question_text, w)
    IN  CASE question.format = "match" -> has(<<"m", "a", "t", "c", "h">>) \/ has(<<"r", "o", "w">>)
          [] question.format = "statement" -> has(<<"s", "t", "a", "t", "e", "m", "e", "n", "t">>) \/ has(<<"c", "o", "n", "s", "i", "d", "e", "r", SP, "t", "h", "e", SP, "f", "o", "l", "l", "o", "w", "i", "n", "g">>)
          [] question.format = "assertion" -> has(<<"a", "s", "s", "e", "r", "t", "i", "o", "n">>) \/ has(<<"r", "e", "a", "s", "o", "n">>) \/ has(<<"s", "t", "a", "t", "e", "m", "e", "n", "t", SP, "i">>)
          [] question.format = "table" -> has(<<"t", "a", "b", "l", "e">>) \/ has(<<"r", "o", "w">>) \/ has(<<"c", "o", "l", "u", "m", "n">>)
          [] question.format = "paragraph" -> Len(question_text) >= ParagraphLen
          [] OTHER -> TRUE

\* lines 187-233: the CSV row of a question (the columns that identify it)
map_json_to_csv_row(question, exam, year, row_id) ==
    [id |-> row_id, json_question_id |-> question.id, question_text |-> question.question,
     exam |-> exam, year |-> year, question_format |-> question.format]

\* lines 394-399, 408-413, 420-426: an entry of the rejected questions list
\* (without its timestamp)
RejectedEntry(question, reason, json_file) ==
    [json_question_id |-> question.id, reason |-> reason, source_file |-> json_file.name]

\* lines 294-298: the directory holds no JSON file
MergeNoFiles ==
    /\ mpc = "call"
    /\ json_files = <<>>
    /\ mpc' = "returned"
    /\ UNCHANGED <<json_files, jf_idx, q_idx, file_counts, csvfile, rejected_questions, stats, rejected_log, notMerge>>

\* lines 300-349: the CSV file is opened for writing and gets its header
MergeOpenCsv ==
    /\ mpc = "call"
    /\ json_files # <<>>
    /\ csvfile' = <<>>
    /\ mpc' = "next_file"
    /\ UNCHANGED <<json_files, jf_idx, q_idx, file_counts, rejected_questions, stats, rejected_log, notMerge>>

\* lines 357-361 and 366-372: no exam in the file name, or a file that is
\* not JSON
MergeSkipFile ==
    /\ mpc = "next_file"
    /\ jf_idx <= Len(json_files)
    /\ \/ parse_filename(json_files[jf_idx].name).exam = NoExam
       \/ "data" \notin DOMAIN json_files[jf_idx]
    /\ stats' = [stats EXCEPT !.errors = @ + 1]
    /\ jf_idx' = jf_idx + 1
    /\ UNCHANGED <<json_files, mpc, q_idx, file_counts, csvfile, rejected_questions, rejected_log, notMerge>>

\* lines 357-386: the file is read
MergeReadFile ==
    /\ mpc = "next_file"
    /\ jf_idx <= Len(json_files)
    /\ parse_filename(json_files[jf_idx].name).exam # NoExam
    /\ "data" \in DOMAIN json_files[jf_idx]
    /\ q_idx' = 1
    /\ file_counts' = NoFileCounts
    /\ mpc' = "questions"
    /\ UNCHANGED <<json_files, jf_idx, csvfile, rejected_questions, stats, rejected_log, notMerge>>

\* lines 388-456: one question of the file
MergeQuestion ==
    /\ mpc = "questions"
    /\ q_idx <= Len(json_files[jf_idx].data)
    /\ LET json_file == json_files[jf_idx]
           question  == json_file.data[q_idx]
           parsed    == parse_filename(json_file.name)
       IN  /\ IsQuestionObject(question)
           /\ IF ~question.extracted_successfully
              THEN /\ file_counts' = [file_counts EXCEPT !.file_skipped = @ + 1]
                   /\ rejected_questions' = Append(rejected_questions,
                          RejectedEntry(question, "extracted_successfully is False", json_file))
                   /\ UNCHANGED csvfile
              ELSE IF has_null_answer(question)
              THEN /\ file_counts' = [file_counts EXCEPT !.file_rejected_null = @ + 1]
                   /\ rejected_questions' = Append(rejected_questions,
                          RejectedEntry(question, "null_correct_answer", json_file))
                   /\ UNCHANGED csvfile
              ELSE IF validate_question(question) # {}
              THEN /\ file_counts' = [file_counts EXCEPT !.file_rejected_validation = @ + 1]
                   /\ rejected_questions' = Append(rejected_questions,
                          RejectedEntry(question, "validation_failed", json_file))
                   /\ UNCHANGED csvfile
              ELSE /\ csvfile' = Append(csvfile,
                          map_json_to_csv_row(question, parsed.exam, parsed.year, Len(csvfile) + 1))
                   /\ file_counts' = [file_counts EXCEPT
                          !.file_questions = @ + 1,
                          !.file_format_warnings = IF validate_question_format(question) THEN @ ELSE @ + 1]
                   /\ UNCHANGED rejected_questions
    /\ q_idx' = q_idx + 1
    /\ UNCHANGED <<json_files, mpc, jf_idx, stats, rejected_log, notMerge>>

\* lines 389 and 475-480: a value of the array that is no object has no
\* get(); the AttributeError ends the work on the file
MergeQuestionRaises ==
    /\ mpc = "questions"
    /\ q_idx <= Len(json_files[jf_idx].data)
    /\ ~IsQuestionObject(json_files[jf_idx].data[q_idx])
    /\ stats' = [stats EXCEPT !.errors = @ + 1]
    /\ jf_idx' = jf_idx + 1
    /\ mpc' = "next_file"
    /\ UNCHANGED <<json_files, q_idx, file_counts, csvfile, rejected_questions, rejected_log, notMerge>>

\* lines 458-463: the counters of the file are added to the statistics
MergeFileDone ==
    /\ mpc = "questions"
    /\ q_idx > Len(json_files[jf_idx].data)
    /\ stats' = [stats EXCEPT
           !.total_questions = @ + file_counts.file_questions,
           !.skipped = @ + file_counts.file_skipped,
           !.rejected_null_answer = @ + file_counts.file_rejected_null,
           !.rejected_validation = @ + file_counts.file_rejected_validation,
           !.format_warnings = @ + file_counts.file_format_warnings,
           !.files_processed = @ + 1]
    /\ jf_idx' = jf_idx + 1
    /\ mpc' = "next_file"
    /\ UNCHANGED <<json_files, q_idx, file_counts, csvfile, rejected_questions, rejected_log, notMerge>>

\* lines 482-514: the rejected questions log is written and stats returned
MergeWriteLog ==
    /\ mpc = "next_file"
    /\ jf_idx > Len(json_files)
    /\ rejected_log' =
           [summary |-> [total_rejected |-> Len(rejected_questions),
                         rejected_null_answer |-> stats.rejected_null_answer,
                         rejected_validation |-> stats.rejected_validation,
                         rejected_extraction_failed |-> stats.skipped],
            rejected_questions |-> rejected_questions]
    /\ mpc' = "returned"
    /\ UNCHANGED <<json_files, jf_idx, q_idx, file_counts, csvfile, rejected_questions, stats, notMerge>>

\* ------------------------------------------------------------------------
\* Inputs of the merge: directories of up to MaxFiles of the files below
\* ------------------------------------------------------------------------
MaxFiles == 2

X_Stem == <<"W", "h", "a", "t", SP, "i", "s", SP, "X", "?">>

X_One == <<"1">>

X_Two == <<"2">>

AllOptions == [opt \in {"A", "B", "C", "D"} |-> IF opt = "A" THEN X_One ELSE X_Two]

\* a question that is written to the CSV file
Q_Ok(id) ==
    [id |-> id, question |-> X_Stem, options |-> AllOptions, correct_answer |-> [str |-> <<"A">>],
     format |-> "single", extracted_successfully |-> TRUE]

\* a question declared match without the cue of one: written, with a warning
Q_Match(id) == [Q_Ok(id) EXCEPT !.format = "match"]

\* the failure record of a block
Q_Failed(id) == [Q_Ok(id) EXCEPT !.extracted_successfully = FALSE]

Q_NoAnswer(id) == [Q_Ok(id) EXCEPT !.correct_answer = [lit |-> "null"]]

Q_NoOptions(id) == [Q_Ok(id) EXCEPT !.options = <<>>]

\* a string in the array, where an object is expected
Q_String == [str |-> X_Stem]

JF_Upsc == [name |-> <<"U", "P", "S", "C", "_", "2", "0", "2", "5", ".", "j", "s", "o", "n">>, data |-> <<Q_Ok("q1"), Q_Failed("q2"), Q_String, Q_Ok("q4")>>]

JF_Match == [name |-> <<"m", "a", "t", "c", "h", "2", "_", "2", "0", "2", "5", ".", "j", "s", "o", "n">>, data |-> <<Q_Match("q1"), Q_NoAnswer("q2"), Q_NoOptions("q3")>>]

JF_Notes == [name |-> <<"n", "o", "t", "e", "s", ".", "j", "s", "o", "n">>, data |-> <<Q_Ok("q1")>>]

JF_Empty == [name |-> <<"2", "0", "2", "4", "_", "s", "e", "t", ".", "j", "s", "o", "n">>, data |-> <<>>]

\* a file that is not JSON
JF_Broken == [name |-> <<"X", "_", "2", "0", "2", "4", ".", "j", "s", "o", "n">>]

\* a file whose name is the extension alone
JF_Hidden == [name |-> <<".", "j", "s", "o", "n">>, data |-> <<Q_Ok("q1")>>]

FilePool == {JF_Upsc, JF_Match, JF_Notes, JF_Empty, JF_Broken, JF_Hidden}

\* the files of a directory, in the order glob returns them
Directories ==
    UNION { {fs \in [1..n -> FilePool] : \A a, b \in 1..n : a # b => fs[a] # fs[b]} : n \in 0..MaxFiles }

InitMerge ==
    /\ TextIdle
    /\ ClassIdle
    /\ SanIdle
    /\ NormIdle
    /\ BuildIdle
    /\ ParIdle
    /\ BeautIdle
    /\ MergeFresh
    /\ json_files \in Directories

NextMerge ==
    \/ MergeNoFiles
    \/ MergeOpenCsv
    \/ MergeSkipFile
    \/ MergeReadFile
    \/ MergeQuestion
    \/ MergeQuestionRaises
    \/ MergeFileDone
    \/ MergeWriteLog

SpecMerge == InitMerge /\ [][NextMerge]_vars

\* ------------------------------------------------------------------------
\* Claims about the CSV merge (checked under SpecMerge)
\* ------------------------------------------------------------------------
\* the file was read: its name gives an exam and its content is JSON
WasRead(json_file) ==
    parse_filename(json_file.name).exam # NoExam /\ "data" \in DOMAIN json_file

\* the positions of the CSV rows that come from the file
RowsOf(json_file) ==
    {n \in 1..Len(csvfile) :
        /\ csvfile[n].exam = parse_filename(json_file.name).exam
        /\ csvfile[n].year = parse_filename(json_file.name).year}

\* the positions of the rejected entries that come from the file
RejectsOf(json_file) ==
    {n \in 1..Len(rejected_questions) : rejected_questions[n].source_file = json_file.name}

\* C30: when merge_json_files has returned, every question of every file it
\* read is either one row of the CSV file or one entry of the rejected
\* questions list, never both and never neither; total_questions is the
\* number of rows written, and skipped, rejected_null_answer and
\* rejected_validation add up to the number of rejected entries.
C30_MergeAccounting ==
    mpc = "returned" =>
        /\ \A k \in 1..Len(json_files) : WasRead(json_files[k]) =>
              LET json_file == json_files[k]
              IN  /\ Cardinality(RowsOf(json_file)) + Cardinality(RejectsOf(json_file)) = Len(json_file.data)
                  /\ \A j \in 1..Len(json_file.data) : IsQuestionObject(json_file.data[j]) =>
                        Cardinality({n \in RowsOf(json_file) : csvfile[n].json_question_id = json_file.data[j].id})
                        + Cardinality({n \in RejectsOf(json_file) : rejected_questions[n].json_question_id = json_file.data[j].id})
                        = 1
        /\ stats.total_questions = Len(csvfile)
        /\ stats.skipped + stats.rejected_null_answer + stats.rejected_validation = Len(rejected_questions)

====
